---- MODULE Spec2Model ----
(***************************************************************************)
(* Model of the wargames display: the C++ SDL/OpenGL front-end             *)
(* (wargames_cpp) and the WebGL front-end (wargames_web).                  *)
(*                                                                         *)
(* Units.  Time is counted in tenths of a second, so the frame delta cap   *)
(* of 0.1 s is 1, a missile flight of 12.0 s is 120 and an explosion of    *)
(* 2.5 s is 25.  A missile's progress p in [0,1] is stored as the integer  *)
(* p * MissileDuration, so "progress += dt / duration" is "progress + dt"  *)
(* and progress 1.0 is MissileDuration.  An aircraft's progress is stored  *)
(* the same way against its own loop duration.  A web aircraft's angle is  *)
(* in milliradians and its speed in milliradians per tenth of a second.    *)
(* Screen x and y are pixels.                                              *)
(***************************************************************************)
EXTENDS Integers, Sequences, FiniteSets, TLC

VARIABLES
  impl,            \* which program this behaviour is a run of
  game,            \* the TicTacToeGame of the web ScreenManager
  tracked,         \* history: where the entity a run follows is in its collection
  \* ---- antimeridian split of one polyline
  points,          \* the input polyline
  output,          \* the segments the split returned
  splitPc,         \* "input" before the call, "done" after it
  \* ---- one entity of each class, driven by update() calls
  uMissile,        \* C++ Missile
  uWebMissile,     \* web Missile
  uExplosion,      \* C++ Explosion
  uWebExplosion,   \* web Explosion
  uAircraft,       \* C++ Aircraft
  uWebAircraft,    \* web Aircraft
  uTime,           \* sum of the dt passed so far (currentTime of the web Explosion)
  uDt,             \* the dt of the last update call
  \* ---- the simulation of either front-end (impl = "cpp" or "web")
  missiles,        \* the missile collection, in order
  explosions,      \* the explosion collection, in order
  aircraft,        \* the aircraft collection, in order
  \* C++ main()
  running,
  crtMode,
  launchInterval,
  timeSinceLastLaunch,
  \* web SimulationState
  simRunning,      \* SimulationState.running
  time,            \* SimulationState.time
  timeSinceLastSpawn,
  fleets,          \* number of createAircraftFleet() calls so far
  \* ---- what the last frame did, in program order
  updatedMissiles,   \* the missile collection after the update loop, before removal
  updatedExplosions, \* the explosion collection after its update loop, before removal
  frameLog,          \* explosions pushed and missiles removed by the last frame
  \* ---- graphics
  gpu,               \* the GPU objects the program holds: programs, framebuffers, textures
  frameOps           \* what the last frame did, in program order: mutations, draws, passes

splitVars == <<points, output, splitPc>>
unitVars  == <<uMissile, uWebMissile, uExplosion, uWebExplosion,
               uAircraft, uWebAircraft, uTime, uDt>>
cppVars   == <<running, crtMode, launchInterval, timeSinceLastLaunch>>
webVars   == <<simRunning, time, timeSinceLastSpawn, fleets>>
simVars   == <<missiles, explosions, aircraft>>
obsVars   == <<updatedMissiles, updatedExplosions, frameLog>>
gfxVars   == <<gpu, frameOps>>
vars      == <<impl, game, tracked, splitVars, unitVars, cppVars, webVars, simVars, obsVars, gfxVars>>

Abs(v) == IF v < 0 THEN -v ELSE v
Min(a, b) == IF a < b THEN a ELSE b
Max(a, b) == IF a > b THEN a ELSE b

(***************************************************************************)
(* Bounds of the model.                                                    *)
(***************************************************************************)
MaxPathLen  == 4      \* longest polyline handed to the split
MaxUnitDt   == 3      \* largest small dt of a direct update() call
MaxUnitTime == 330    \* the direct update() calls stop after this much time
MaxMissiles == 15     \* missiles in flight at one time
MaxRawDelta == 2      \* longest wall-clock time between two frames
AircraftCount == 1    \* aircraft created at startup (12 in both front-ends)
WebInitialBatch == 2  \* missiles of initializeSimulation (15 in the source)
MaxSimTime  == 60     \* the web simulation stops at this SimulationState.time
MaxFleets   == 2      \* createAircraftFleet() calls of one run

(***************************************************************************)
(* Program constants.                                                      *)
(***************************************************************************)
SCREEN_WIDTH      == 1920   \* Common.hpp
MissileDuration   == 120    \* m_duration(12.0f); web duration = 12.0
ExplosionDuration == 25     \* m_duration(2.5f); web this.duration = 2.5
NUM_RINGS         == 4
RING_DELAYS       == <<0, 3, 6, 9>>   \* {0.0f, 0.3f, 0.6f, 0.9f}; web rings[].delay
TWO_PI            == 6283   \* Math.PI * 2, in milliradians
DT_CAP            == 1      \* deltaTime > 0.1f; Math.min(deltaTime, 0.1)
DefaultLaunchInterval == 20 \* launchInterval = 2.0f; missileSpawnInterval = 2.0
BurstMissiles     == 5
BurstSubmarines   == 3
missileSpawnInterval == 20  \* this.missileSpawnInterval = 2.0

(***************************************************************************)
(* AntimeridianSegmenter: VectorMap::splitAtAntimeridian.                  *)
(***************************************************************************)
XS == {0, 960, 961, 1920}
YS == {270, 810}
Point == [x : XS, y : YS]
Polylines == UNION {[1..n -> Point] : n \in 0..MaxPathLen}

\* variant: the threshold is the whole screen width
crossesFullWidth(p1, p2) ==
  LET dx == Abs(p2.x - p1.x) IN dx > SCREEN_WIDTH

\* variant: a distance of exactly half the width also counts as a crossing
crossesAtHalfWidth(p1, p2) ==
  LET dx == Abs(p2.x - p1.x) IN 2 * dx >= SCREEN_WIDTH

\* dx > SCREEN_WIDTH * 0.5f
crossesAntimeridian(p1, p2) ==
  LET dx == Abs(p2.x - p1.x) IN 2 * dx > SCREEN_WIDTH

\* the for loop of splitAtAntimeridian, from index i (1-based) on
\* iterations i..j of the loop.  The range is halved and the first half is
\* evaluated before the second is entered, so that the depth of evaluation
\* stays logarithmic in the length of the path.
Evaluated(v) == v = v

RECURSIVE splitRange(_, _, _, _, _)
splitRange(pts, i, j, currentSegment, out) ==
  IF i > j THEN <<currentSegment, out>>
  ELSE IF i = j
       THEN IF crossesAntimeridian(pts[i - 1], pts[i])
            THEN <<<<pts[i]>>,
                   IF Len(currentSegment) > 1
                   THEN Append(out, currentSegment) ELSE out>>
            ELSE <<Append(currentSegment, pts[i]), out>>
       ELSE LET mid == (i + j) \div 2
                r   == splitRange(pts, i, mid, currentSegment, out)
            IN  IF Evaluated(r) THEN splitRange(pts, mid + 1, j, r[1], r[2])
                ELSE r

splitLoop(pts, i, currentSegment, out) ==
  splitRange(pts, i, Len(pts), currentSegment, out)

\* variant: the last segment is pushed whatever its size
splitAtAntimeridianKeepsLast(pts, out) ==
  IF pts = <<>> THEN out
  ELSE LET r == splitLoop(pts, 2, <<pts[1]>>, out)
       IN  Append(r[2], r[1])

splitAtAntimeridian(pts, out) ==
  IF pts = <<>> THEN out
  ELSE LET r == splitLoop(pts, 2, <<pts[1]>>, out)
       IN  IF Len(r[1]) > 1 THEN Append(r[2], r[1]) ELSE r[2]

(***************************************************************************)
(* EntityAnimator: the update methods and finished tests of the entities.  *)
(***************************************************************************)
\* variant: Missile::update without the clamp
MissileUpdateUnclamped(m, dt) == [m EXCEPT !.progress = m.progress + dt]

\* Missile::update (C++)
MissileUpdate(m, dt) ==
  LET p == m.progress + dt
  IN  [m EXCEPT !.progress = IF p > MissileDuration THEN MissileDuration ELSE p]

\* variant: isFinished with > in place of >=
MissileIsFinishedStrict(m) == m.progress > MissileDuration

\* Missile::isFinished (C++): m_progress >= 1.0f
MissileIsFinished(m) == m.progress >= MissileDuration

\* variant: Missile.update that sets finished but does not clamp progress
WebMissileUpdateUnclamped(m, dt) ==
  IF m.finished THEN m
  ELSE LET p == m.progress + dt
       IN  IF p >= MissileDuration
           THEN [m EXCEPT !.progress = p, !.finished = TRUE]
           ELSE [m EXCEPT !.progress = p]

\* Missile.update (web)
WebMissileUpdate(m, dt) ==
  IF m.finished THEN m
  ELSE LET p == m.progress + dt
       IN  IF p >= MissileDuration
           THEN [m EXCEPT !.progress = MissileDuration, !.finished = TRUE]
           ELSE [m EXCEPT !.progress = p]

\* Explosion::update (C++)
ExplosionUpdate(e, dt) == [e EXCEPT !.age = e.age + dt]

\* variant: isFinished with > in place of >=
ExplosionIsFinishedStrict(e) == e.age > ExplosionDuration

\* Explosion::isFinished (C++)
ExplosionIsFinished(e) == e.age >= ExplosionDuration

\* Explosion.update (web)
WebExplosionUpdate(e, currentTime) ==
  LET elapsed == currentTime - e.startTime
  IN  IF elapsed >= ExplosionDuration THEN [e EXCEPT !.finished = TRUE] ELSE e

\* Aircraft::update (C++); floor(m_progress) is p \div duration
AircraftUpdate(a, dt) ==
  IF a.duration <= 0 THEN a
  ELSE LET p == a.progress + dt
       IN  [a EXCEPT !.progress =
              IF p >= a.duration THEN p - (p \div a.duration) * a.duration ELSE p]

\* Aircraft.update (web)
WebAircraftUpdate(a, dt) ==
  LET angle == a.angle + a.speed * dt
  IN  [a EXCEPT !.angle = IF angle > TWO_PI THEN angle - TWO_PI ELSE angle]

(***************************************************************************)
(* Explosion::draw (C++) and Explosion.render (web): is ring i drawn.      *)
(***************************************************************************)
\* C++: ringDuration is the same for every ring; t = ringAge / ringDuration
ExplosionDrawsRing(age, i) ==
  LET ringDuration == ExplosionDuration - RING_DELAYS[NUM_RINGS]
      ringAge      == age - RING_DELAYS[i]
  IN  ~(ringAge < 0) /\ ~(ringAge > ringDuration)

\* variant: a ring is dropped as soon as it reaches the end of its window
WebExplosionRendersRingStrict(elapsed, i) ==
  LET ringElapsed == elapsed - RING_DELAYS[i]
  IN  ~(ringElapsed < 0) /\ ~(ringElapsed >= ExplosionDuration - RING_DELAYS[i])

\* web: elapsed - ring.delay against duration - ring.delay
WebExplosionRendersRing(elapsed, i) ==
  LET ringElapsed == elapsed - RING_DELAYS[i]
  IN  ~(ringElapsed < 0) /\ ~(ringElapsed > ExplosionDuration - RING_DELAYS[i])

(***************************************************************************)
(* TicTacToeGame (web).  Time is counted in ticks of 1/60 s, the deltaTime *)
(* ScreenManager.render passes to update.  sinceLastMove is currentTime -  *)
(* lastMoveTime, kept while the game is over, which is when update reads   *)
(* it: the update that ends a game is the one that sets lastMoveTime.      *)
(***************************************************************************)
\* thinkingTime >= moveDelay (1.5) first holds after 91 additions of 1/60:
\* in double arithmetic the sum of 90 is below 1.5
MoveTicks == 91

\* currentTime - lastMoveTime > 3.0
ResetTicks == 180

Cells == 0..8

\* new TicTacToeGame()
NewGame ==
  [board         |-> [c \in Cells |-> ""],
   currentPlayer |-> "X",
   gameOver      |-> FALSE,
   winner        |-> "",
   winLine       |-> <<>>,
   thinkingTime  |-> 0,
   sinceLastMove |-> 0]

\* the game of a run in which render is left out
GameIdle == NewGame

\* no entity is followed
NotTracked == [phase |-> "none", idx |-> 0]

\* const lines of checkWinner
WinLines ==
  <<<<0, 1, 2>>, <<3, 4, 5>>, <<6, 7, 8>>,
    <<0, 3, 6>>, <<1, 4, 7>>, <<2, 5, 8>>,
    <<0, 4, 8>>, <<2, 4, 6>>>>

\* the test of one line in checkWinner
LineWon(board, line) ==
  /\ board[line[1]] # ""
  /\ board[line[1]] = board[line[2]]
  /\ board[line[1]] = board[line[3]]

\* checkWinner: its result
checkWinner(board) == \E k \in 1..Len(WinLines) : LineWon(board, WinLines[k])

\* checkWinner: the winLine it sets, the first line that matches
firstWinLine(board) ==
  WinLines[CHOOSE k \in 1..Len(WinLines) :
             /\ LineWon(board, WinLines[k])
             /\ \A j \in 1..(k - 1) : ~LineWon(board, WinLines[j])]

\* makeAIMove: the cells with null, in increasing order
available(board) == SelectSeq(<<0, 1, 2, 3, 4, 5, 6, 7, 8>>, LAMBDA c : board[c] = "")

\* Math.floor(Math.random() * n): the first, the middle or the last
RandomIndex(n) == {0, n \div 2, n - 1}

\* makeAIMove, with r what Math.floor(Math.random() * available.length) gave
makeAIMove(g, r) ==
  LET av == available(g.board)
  IN  IF Len(av) = 0 THEN [g EXCEPT !.gameOver = TRUE]
      ELSE LET move == av[r + 1]
               b    == [g.board EXCEPT ![move] = g.currentPlayer]
           IN  IF checkWinner(b)
               THEN [g EXCEPT !.board = b, !.winLine = firstWinLine(b),
                              !.winner = g.currentPlayer, !.gameOver = TRUE]
               ELSE IF Len(av) = 1
               THEN [g EXCEPT !.board = b, !.gameOver = TRUE, !.winner = "DRAW"]
               ELSE [g EXCEPT !.board = b,
                              !.currentPlayer = IF g.currentPlayer = "X" THEN "O" ELSE "X"]

\* variant: reset that leaves gameOver set
resetKeepsGameOver(g) ==
  [g EXCEPT !.board = NewGame.board, !.currentPlayer = "X",
            !.winner = "", !.winLine = <<>>, !.thinkingTime = 0]

\* reset
reset(g) ==
  [g EXCEPT !.board = NewGame.board, !.currentPlayer = "X", !.gameOver = FALSE,
            !.winner = "", !.winLine = <<>>, !.thinkingTime = 0]

\* update(1/60, currentTime), called raw ticks after the call before it
update(g, raw, r) ==
  IF g.gameOver
  THEN LET since == Min(g.sinceLastMove + raw, ResetTicks + 1)
       IN  IF since > ResetTicks
           THEN [reset(g) EXCEPT !.sinceLastMove = since]
           ELSE [g EXCEPT !.sinceLastMove = since]
  ELSE LET t == g.thinkingTime + 1
       IN  IF t >= MoveTicks
           THEN [makeAIMove(g, r) EXCEPT !.thinkingTime = 0, !.sinceLastMove = 0]
           ELSE [g EXCEPT !.thinkingTime = t]

(***************************************************************************)
(* Specification SpecSplit: the split applied to every short polyline.     *)
(***************************************************************************)
UnitIdle ==
  /\ uMissile = [progress |-> 0]
  /\ uWebMissile = [progress |-> 0, finished |-> FALSE]
  /\ uExplosion = [age |-> 0]
  /\ uWebExplosion = [startTime |-> 0, finished |-> FALSE]
  /\ uAircraft = [progress |-> 0, duration |-> 300]
  /\ uWebAircraft = [angle |-> 0, speed |-> 30]
  /\ uTime = 0
  /\ uDt = 0

SplitIdle ==
  /\ points = <<>>
  /\ output = <<>>
  /\ splitPc = "idle"

CppIdle ==
  /\ running = FALSE
  /\ crtMode = "OFF"
  /\ launchInterval = 0
  /\ timeSinceLastLaunch = 0

WebIdle ==
  /\ simRunning = FALSE
  /\ time = 0
  /\ timeSinceLastSpawn = 0
  /\ fleets = 0

GfxIdle ==
  /\ gpu = [programs |-> {}, fbos |-> {}, textures |-> {}, incomplete |-> {}, gen |-> 0]
  /\ frameOps = <<>>

SimIdle ==
  /\ GfxIdle
  /\ missiles = <<>>
  /\ explosions = <<>>
  /\ aircraft = <<>>
  /\ updatedMissiles = <<>>
  /\ updatedExplosions = <<>>
  /\ frameLog = <<>>

InitSplit ==
  /\ impl = "split"
  /\ game = GameIdle
  /\ tracked = NotTracked
  /\ points \in Polylines
  /\ output = <<>>
  /\ splitPc = "input"
  /\ UnitIdle /\ CppIdle /\ WebIdle /\ SimIdle

SplitPath ==
  /\ impl = "split"
  /\ splitPc = "input"
  /\ output' = splitAtAntimeridian(points, <<>>)
  /\ splitPc' = "done"
  /\ UNCHANGED <<impl, game, tracked, points, unitVars, cppVars, webVars, simVars, obsVars, gfxVars>>

NextSplit == SplitPath

SpecSplit == InitSplit /\ [][NextSplit]_vars

(***************************************************************************)
(* Specification SpecTrail: one missile's trail being drawn in the global  *)
(* view.  points is the missile's path projected to the screen (C++ keeps  *)
(* m_path projected; the web projects this.path with lonLatToXY in         *)
(* render), output the line strips handed to the drawing primitive         *)
(* (drawPathWithGlow / drawLineStrip), in call order.                      *)
(***************************************************************************)
\* m_progress of the missile being drawn: 0, 0.5, 0.75, 1
TrailProgress == {0, 60, 90, MissileDuration}

\* static_cast<int>(m_progress * m_path.size()); Math.floor(path.length * progress)
NumPoints(path, progress) == (progress * Len(path)) \div MissileDuration

\* the for loop of Missile::draw over visiblePath[i..j], with the test on dx
\* written out as in the source; drawn collects the drawPathWithGlow calls
RECURSIVE missileDrawLoop(_, _, _, _, _)
missileDrawLoop(visiblePath, i, j, currentSegment, drawn) ==
  IF i > j THEN <<currentSegment, drawn>>
  ELSE IF i = j
  THEN LET dx == Abs(visiblePath[i].x - visiblePath[i - 1].x)
       IN  IF 2 * dx > SCREEN_WIDTH
           THEN <<<<visiblePath[i]>>,
                  IF Len(currentSegment) > 1 THEN Append(drawn, currentSegment) ELSE drawn>>
           ELSE <<Append(currentSegment, visiblePath[i]), drawn>>
  ELSE LET mid == (i + j) \div 2
           r   == missileDrawLoop(visiblePath, i, mid, currentSegment, drawn)
       IN  IF Evaluated(r) THEN missileDrawLoop(visiblePath, mid + 1, j, r[1], r[2]) ELSE r

\* Missile::draw: the strips passed to drawPathWithGlow
MissileDrawStrips(path, progress) ==
  IF path = <<>> \/ NumPoints(path, progress) < 2 THEN <<>>
  ELSE LET visiblePath == SubSeq(path, 1, NumPoints(path, progress))
           r == missileDrawLoop(visiblePath, 2, Len(visiblePath), <<visiblePath[1]>>, <<>>)
       IN  IF Len(r[1]) > 1 THEN Append(r[2], r[1]) ELSE r[2]

\* the for loop of SubmarineMissile::draw over visiblePath[i..j], with the test on dx
\* written out as in the source; drawn collects the drawPathWithGlow calls
RECURSIVE submarineMissileDrawLoop(_, _, _, _, _)
submarineMissileDrawLoop(visiblePath, i, j, currentSegment, drawn) ==
  IF i > j THEN <<currentSegment, drawn>>
  ELSE IF i = j
  THEN LET dx == Abs(visiblePath[i].x - visiblePath[i - 1].x)
       IN  IF 2 * dx > SCREEN_WIDTH
           THEN <<<<visiblePath[i]>>,
                  IF Len(currentSegment) > 1 THEN Append(drawn, currentSegment) ELSE drawn>>
           ELSE <<Append(currentSegment, visiblePath[i]), drawn>>
  ELSE LET mid == (i + j) \div 2
           r   == submarineMissileDrawLoop(visiblePath, i, mid, currentSegment, drawn)
       IN  IF Evaluated(r) THEN submarineMissileDrawLoop(visiblePath, mid + 1, j, r[1], r[2]) ELSE r

\* SubmarineMissile::draw: the strips passed to drawPathWithGlow
SubmarineMissileDrawStrips(path, progress) ==
  IF path = <<>> \/ NumPoints(path, progress) < 2 THEN <<>>
  ELSE LET visiblePath == SubSeq(path, 1, NumPoints(path, progress))
           r == submarineMissileDrawLoop(visiblePath, 2, Len(visiblePath),
                                         <<visiblePath[1]>>, <<>>)
       IN  IF Len(r[1]) > 1 THEN Append(r[2], r[1]) ELSE r[2]

\* Missile.render with viewport = null: the strips passed to drawLineStrip,
\* one per glow layer
WebMissileRenderStrips(path, progress) ==
  IF NumPoints(path, progress) < 2 THEN <<>>
  ELSE LET screenPoints == SubSeq(path, 1, NumPoints(path, progress))
       IN  <<screenPoints, screenPoints, screenPoints>>

InitTrail ==
  /\ impl = "trail"
  /\ game = GameIdle
  /\ tracked = NotTracked
  /\ points \in Polylines
  /\ output = <<>>
  /\ splitPc = "input"
  /\ \E progress \in TrailProgress :
       /\ uMissile = [progress |-> progress]
       /\ uWebMissile = [progress |-> progress, finished |-> progress = MissileDuration]
  /\ uExplosion = [age |-> 0]
  /\ uWebExplosion = [startTime |-> 0, finished |-> FALSE]
  /\ uAircraft = [progress |-> 0, duration |-> 300]
  /\ uWebAircraft = [angle |-> 0, speed |-> 30]
  /\ uTime = 0
  /\ uDt = 0
  /\ CppIdle /\ WebIdle /\ SimIdle

\* missile->draw(&renderer)
MissileDraw ==
  /\ impl = "trail"
  /\ splitPc = "input"
  /\ output' = MissileDrawStrips(points, uMissile.progress)
  /\ splitPc' = "cppDrawn"
  /\ UNCHANGED <<impl, game, tracked, points, unitVars, cppVars, webVars, simVars, obsVars, gfxVars>>

\* submarineMissile->draw(&renderer)
SubmarineMissileDraw ==
  /\ impl = "trail"
  /\ splitPc = "input"
  /\ output' = SubmarineMissileDrawStrips(points, uMissile.progress)
  /\ splitPc' = "subDrawn"
  /\ UNCHANGED <<impl, game, tracked, points, unitVars, cppVars, webVars, simVars, obsVars, gfxVars>>

\* missile.render(renderer, null)
WebMissileRender ==
  /\ impl = "trail"
  /\ splitPc = "input"
  /\ output' = WebMissileRenderStrips(points, uWebMissile.progress)
  /\ splitPc' = "webDrawn"
  /\ UNCHANGED <<impl, game, tracked, points, unitVars, cppVars, webVars, simVars, obsVars, gfxVars>>

NextTrail == MissileDraw \/ SubmarineMissileDraw \/ WebMissileRender

SpecTrail == InitTrail /\ [][NextTrail]_vars

(***************************************************************************)
(* Specification SpecPath: one C++ missile and one aircraft from their     *)
(* construction on.  uMissile and uAircraft carry m_path; samples is the   *)
(* sample count calculatePath was called with.  Angles are in degrees.     *)
(* The geodesic of GeographicLib is rendered as the straight line in       *)
(* longitude and latitude that takes the short way round, sin and cos by   *)
(* Bhaskara's rational approximation, in thousandths.                      *)
(***************************************************************************)
SCREEN_HEIGHT   == 1080   \* Common.hpp
MissileSamples  == 220    \* calculatePath(..., int samples = 220)
AircraftSamples == 240    \* buildLoop(..., int samples = 240)

\* lonlat_to_xy
lonlat_to_xy(lon, lat) ==
  [x |-> ((lon + 180) * SCREEN_WIDTH) \div 360,
   y |-> ((90 - lat) * SCREEN_HEIGHT) \div 180]

\* wrapLongitude
RECURSIVE wrapLongitude(_)
wrapLongitude(lon) ==
  IF lon > 180 THEN wrapLongitude(lon - 360)
  ELSE IF lon < -180 THEN wrapLongitude(lon + 360)
  ELSE lon

\* the point of 0/0: static_cast<double>(0) / (samples - 1) with samples = 1
NaNPoint == [x |-> "nan", y |-> "nan"]

\* line.Position(t * s12, lat, lon) at t = i / (samples - 1)
GeodesicPosition(start, end, i, samples) ==
  LET dlon == wrapLongitude(end.lon - start.lon)
  IN  [lon |-> wrapLongitude(start.lon + (dlon * i) \div (samples - 1)),
       lat |-> start.lat + ((end.lat - start.lat) * i) \div (samples - 1)]

\* variant: the sampling loop running to i <= samples
calculatePathInclusive(start, end, samples) ==
  [k \in 1..(samples + 1) |->
     IF samples = 1 THEN NaNPoint
     ELSE LET p == GeodesicPosition(start, end, k - 1, samples)
          IN  lonlat_to_xy(p.lon, p.lat)]

\* Missile::calculatePath: m_path after the call; k is i + 1
calculatePath(start, end, samples) ==
  [k \in 1..samples |->
     IF samples = 1 THEN NaNPoint
     ELSE LET p == GeodesicPosition(start, end, k - 1, samples)
          IN  lonlat_to_xy(p.lon, p.lat)]

\* 1000 * sin of u half-degrees, 0 <= u < 720
Sin1000(u) ==
  LET h == IF u >= 360 THEN u - 360 ELSE u
      v == (1000 * h * (360 - h)) \div (40500 - (h * (360 - h)) \div 4)
  IN  IF u >= 360 THEN -v ELSE v

Cos1000(u) == Sin1000((u + 180) % 720)

\* Aircraft::buildLoop: m_path after the call; k is i + 1
buildLoop(center, radiusDeg, samples) ==
  [k \in 1..samples |->
     LET u   == (720 * (k - 1)) \div samples
         lat == center.lat + (radiusDeg * Sin1000(u)) \div 1000
         lon == wrapLongitude(center.lon + (radiusDeg * Cos1000(u)) \div 1000)
     IN  lonlat_to_xy(lon, lat)]

\* Aircraft::draw: the head the circle and the tag are drawn at
AircraftDrawHead(a) ==
  IF Len(a.path) < 2 THEN <<>>
  ELSE LET count == Len(a.path)
           idx   == (a.progress * (count - 1)) \div a.duration
       IN  <<a.path[(IF idx >= count THEN count - 1 ELSE idx) + 1]>>

\* launch sites and targets, one pair on either side of the antimeridian
PathStarts == {[lon |-> -100, lat |-> 40], [lon |-> 140, lat |-> 35]}
PathEnds == {[lon |-> 37, lat |-> 55], [lon |-> -160, lat |-> 20]}

\* the sample counts calculatePath is called with: the default of the
\* constructor, and small ones
PathSamples == {0, 1, 2, MissileSamples}

\* the dt of a direct update call: one second, five seconds
PathDts == {10, 50}

InitPath ==
  /\ impl = "path"
  /\ game = GameIdle
  /\ tracked = NotTracked
  /\ SplitIdle /\ CppIdle /\ WebIdle /\ SimIdle
  /\ \E start \in PathStarts, end \in PathEnds, samples \in PathSamples :
       uMissile = [progress |-> 0, samples |-> samples,
                   path |-> calculatePath(start, end, samples)]
  /\ uAircraft = [progress |-> 0, duration |-> 300,
                  path |-> buildLoop([lon |-> 170, lat |-> 50], 15, AircraftSamples)]
  /\ uWebMissile = [progress |-> 0, finished |-> FALSE]
  /\ uExplosion = [age |-> 0]
  /\ uWebExplosion = [startTime |-> 0, finished |-> FALSE]
  /\ uWebAircraft = [angle |-> 0, speed |-> 30]
  /\ uTime = 0
  /\ uDt = 0

\* missile->update(dt); aircraft->update(dt)
PathUpdate(dt) ==
  /\ impl = "path"
  /\ uTime + dt <= MaxUnitTime
  /\ uDt' = dt
  /\ uTime' = uTime + dt
  /\ uMissile' = MissileUpdate(uMissile, dt)
  /\ uAircraft' = AircraftUpdate(uAircraft, dt)
  /\ UNCHANGED <<impl, game, tracked, splitVars, uWebMissile, uExplosion, uWebExplosion, uWebAircraft,
                 cppVars, webVars, simVars, obsVars, gfxVars>>

\* missile->draw(&renderer)
PathMissileDraw ==
  /\ impl = "path"
  /\ output' = MissileDrawStrips(uMissile.path, uMissile.progress)
  /\ splitPc' = "missileDrawn"
  /\ UNCHANGED <<impl, game, tracked, points, unitVars, cppVars, webVars, simVars, obsVars, gfxVars>>

\* aircraft->draw(&renderer)
PathAircraftDraw ==
  /\ impl = "path"
  /\ output' = <<AircraftDrawHead(uAircraft)>>
  /\ splitPc' = "aircraftDrawn"
  /\ UNCHANGED <<impl, game, tracked, points, unitVars, cppVars, webVars, simVars, obsVars, gfxVars>>

NextPath ==
  \/ \E dt \in PathDts : PathUpdate(dt)
  \/ PathMissileDraw
  \/ PathAircraftDraw

SpecPath == InitPath /\ [][NextPath]_vars

(***************************************************************************)
(* Specification SpecGlow: one call of a glow primitive.  points holds the *)
(* arguments of the call (the colour and the number of layers), output the *)
(* calls of drawLine, drawCircle, drawPath or drawLineStrip it makes, in   *)
(* order.  Widths are in tenths of a pixel, the alpha of a colour in       *)
(* thousandths, a layer's alpha factor in ten-thousandths, so that the     *)
(* alpha of a drawn layer is in units of 1e-7.                             *)
(***************************************************************************)
MaxLayers == 5

\* 1.0f as a layer's alpha factor
AlphaOne == 10000

\* (i == 0) ? 1.0f : 0.3f / layers
layerAlpha(i, layers) ==
  IF i = 0 THEN AlphaOne ELSE (3 * AlphaOne) \div (10 * layers)

\* 1.0f + (layers - i) * 0.8f
layerWidth(i, layers) == 10 + (layers - i) * 8

\* the body of the loop: the call of the primitive for layer i
GlowLayer(prim, color, layers, i) ==
  [prim  |-> prim,
   color |-> [rgb |-> color.rgb, a |-> color.a * layerAlpha(i, layers)],
   width |-> layerWidth(i, layers)]

\* for (int i = layers - 1; i >= 0; i--): the k-th call is layer layers - k
GlowLoop(prim, color, layers) ==
  [k \in 1..layers |-> GlowLayer(prim, color, layers, layers - k)]

\* Renderer::drawLineWithGlow
drawLineWithGlow(color, layers) == GlowLoop("drawLine", color, layers)

\* Renderer::drawCircleWithGlow
drawCircleWithGlow(color, layers) == GlowLoop("drawCircle", color, layers)

\* Renderer::drawPathWithGlow
drawPathWithGlow(color, layers) == GlowLoop("drawPath", color, layers)

\* Missile.render (web): the three drawLineStrip calls; baseColor[3] is
\* overwritten with 0.1, 0.3 and 0.8
WebMissileGlow(color) ==
  <<[prim |-> "drawLineStrip", color |-> [rgb |-> color.rgb, a |-> 100 * AlphaOne], width |-> 50],
    [prim |-> "drawLineStrip", color |-> [rgb |-> color.rgb, a |-> 300 * AlphaOne], width |-> 20],
    [prim |-> "drawLineStrip", color |-> [rgb |-> color.rgb, a |-> 800 * AlphaOne], width |-> 10]>>

\* colours the entities pass: opaque, the aircraft tag (0.8), a fading ring
GlowColors == [rgb : {"cyan", "red", "white"}, a : {1000, 800, 500, 0}]

InitGlow ==
  /\ impl = "glow"
  /\ game = GameIdle
  /\ tracked = NotTracked
  /\ points \in [color : GlowColors, layers : 0..MaxLayers]
  /\ output = <<>>
  /\ splitPc = "input"
  /\ UnitIdle /\ CppIdle /\ WebIdle /\ SimIdle

GlowDone(pc, calls) ==
  /\ impl = "glow"
  /\ splitPc = "input"
  /\ output' = calls
  /\ splitPc' = pc
  /\ UNCHANGED <<impl, game, tracked, points, unitVars, cppVars, webVars, simVars, obsVars, gfxVars>>

\* renderer->drawLineWithGlow(x1, y1, x2, y2, color, layers)
DrawLineWithGlow == GlowDone("lineDrawn", drawLineWithGlow(points.color, points.layers))

\* renderer->drawCircleWithGlow(x, y, radius, color, layers)
DrawCircleWithGlow == GlowDone("circleDrawn", drawCircleWithGlow(points.color, points.layers))

\* renderer->drawPathWithGlow(points, color, layers)
DrawPathWithGlow == GlowDone("pathDrawn", drawPathWithGlow(points.color, points.layers))

\* missile.render(renderer, null) with a visible path
WebMissileRenderGlow == GlowDone("webDrawn", WebMissileGlow(points.color))

NextGlow ==
  \/ DrawLineWithGlow
  \/ DrawCircleWithGlow
  \/ DrawPathWithGlow
  \/ WebMissileRenderGlow

SpecGlow == InitGlow /\ [][NextGlow]_vars

(***************************************************************************)
(* Specification SpecUnit: one entity of each class under a sequence of    *)
(* update(dt) calls.                                                       *)
(***************************************************************************)
\* the dt of a direct call: small ones, half an aircraft loop and a whole one
UnitDts == (0..MaxUnitDt) \cup {150, 300}

\* progress after initializeSimulation: Math.random() * 0.8, or 0 from spawnMissile
WebInitialProgress == {60, 95}

\* this.angle = Math.random() * Math.PI * 2
WebInitialAngle == {4000, TWO_PI - 30}

InitUnit ==
  /\ impl = "unit"
  /\ game = GameIdle
  /\ tracked = NotTracked
  /\ SplitIdle /\ CppIdle /\ WebIdle /\ SimIdle
  /\ uMissile = [progress |-> 0]
  /\ uWebMissile \in [progress : WebInitialProgress \cup {0}, finished : {FALSE}]
  /\ uExplosion = [age |-> 0]
  /\ uWebExplosion = [startTime |-> 0, finished |-> FALSE]
  /\ uAircraft = [progress |-> 0, duration |-> 300]
  /\ uWebAircraft \in [angle : WebInitialAngle, speed : {30}]
  /\ uTime = 0
  /\ uDt = 0

UnitUpdate(dt) ==
  /\ impl = "unit"
  /\ uTime + dt <= MaxUnitTime
  /\ uDt' = dt
  /\ uTime' = uTime + dt
  /\ uMissile' = MissileUpdate(uMissile, dt)
  /\ uWebMissile' = WebMissileUpdate(uWebMissile, dt)
  /\ uExplosion' = ExplosionUpdate(uExplosion, dt)
  /\ uWebExplosion' = WebExplosionUpdate(uWebExplosion, uTime + dt)
  /\ uAircraft' = AircraftUpdate(uAircraft, dt)
  /\ uWebAircraft' = WebAircraftUpdate(uWebAircraft, dt)
  /\ UNCHANGED <<impl, game, tracked, splitVars, cppVars, webVars, simVars, obsVars, gfxVars>>

NextUnit == \E dt \in UnitDts : UnitUpdate(dt)

SpecUnit == InitUnit /\ [][NextUnit]_vars

(***************************************************************************)
(* The simulation loops.  frameLog lists, in program order, what a frame   *)
(* did to the missiles: [op |-> "explode", idx |-> i] when an explosion    *)
(* was pushed for the i-th missile of the collection as it stood in the    *)
(* update loop (updatedMissiles), [op |-> "erase", idx |-> i] when that    *)
(* missile was removed from the collection.                                *)
(***************************************************************************)
MapSeq(s, F(_)) == [i \in 1..Len(s) |-> F(s[i])]

\* the indices i of s with P(s[i]), in increasing order
RECURSIVE IndicesFrom(_, _, _)
IndicesFrom(s, P(_), i) ==
  IF i > Len(s) THEN <<>>
  ELSE (IF P(s[i]) THEN <<i>> ELSE <<>>) \o IndicesFrom(s, P, i + 1)

LogOf(idxs, op) == [k \in 1..Len(idxs) |-> [op |-> op, idx |-> idxs[k]]]

(***************************************************************************)
(* C++ main(): one iteration of the main loop.                             *)
(***************************************************************************)
\* Missile::Missile / SubmarineMissile::SubmarineMissile.  pushed counts the
\* explosions the loop has pushed on the missile's behalf.
NewMissile == [progress |-> 0, pushed |-> 0]

\* Explosion::Explosion
NewExplosion == [age |-> 0]

\* the key of one SDL_PollEvent pass.  UP and DOWN, which only move
\* launchInterval, f, which only switches the window, and the quit keys,
\* which end the loop, are not pressed.
Keys == {"none", "r", "space", "c"}

\* case SDLK_c
CycleCrtMode(mode) ==
  CASE mode = "OFF"   -> "LIGHT"
    [] mode = "LIGHT" -> "FULL"
    [] mode = "FULL"  -> "OFF"

\* case SDLK_SPACE: 5 missiles, then 3 submarine missiles
Burst(ms) == ms \o [i \in 1..(BurstMissiles + BurstSubmarines) |-> NewMissile]

\* variant: the loop without the cap on deltaTime
CapDeltaNone(raw) == raw

\* if (deltaTime > 0.1f) deltaTime = 0.1f
CapDelta(raw) == IF raw > DT_CAP THEN DT_CAP ELSE raw

(***************************************************************************)
(* Graphics.  A GPU object is a handle [kind, owner, name, gen]: owner is  *)
(* the renderer that created it (0 in the C++ front-end, the screen index  *)
(* in the web front-end), gen tells the objects of one creation from those *)
(* of the next.  frameOps lists what a frame did, in program order.        *)
(***************************************************************************)
Handle(kind, owner, name, gen) == [kind |-> kind, owner |-> owner, name |-> name, gen |-> gen]

\* GL object name 0: no program
NullHandle == Handle("null", 0, "", 0)

\* the default framebuffer of the window (C++) or of a screen's canvas (web)
Screen(owner) == Handle("screen", owner, "", 0)

FrameOp(op, what, program, reads, target) ==
  [op |-> op, what |-> what, count |-> 1, program |-> program, reads |-> reads,
   target |-> target]

\* a step of the frame that writes the simulation state
Mutation(what) == FrameOp("mutate", what, NullHandle, <<>>, NullHandle)

\* the loop drawing the n entities of one collection into target: n draw
\* calls in a row, none when the collection is empty
Draws(what, n, program, target) ==
  IF n = 0 THEN <<>>
  ELSE <<[FrameOp("draw", what, program, <<>>, target) EXCEPT !.count = n]>>

\* main(): sceneFbo, postFboA, postFboB, pingpongFbo[0..1]
CppFboNames == {"scene", "postA", "postB", "pingpong0", "pingpong1"}

\* main(): screenShader, barrelShader, chromaticShader, bloomShader, compositeShader
CppShaderNames == {"screen", "barrel", "chromatic", "bloom", "composite"}

\* the GPU objects main() holds after its set-up, when the set-up of the
\* resources in failed did not succeed: loadShader returns 0 on failure,
\* createFramebuffer returns the framebuffer even when it is incomplete
CppGpu(failed) ==
  [programs   |-> [n \in CppShaderNames |->
                     IF n \in failed THEN NullHandle ELSE Handle("program", 0, n, 1)],
   fbos       |-> {Handle("fbo", 0, n, 1) : n \in CppFboNames},
   textures   |-> {Handle("texture", 0, n, 1) : n \in CppFboNames \cup {"scanline", "vignette"}},
   incomplete |-> {Handle("fbo", 0, n, 1) : n \in CppFboNames \cap failed},
   gen        |-> 1,
   failed     |-> failed]

\* variant: the c key releasing the offscreen targets and creating new ones
CppEventsGpuRealloc(g, key) ==
  IF key # "c" THEN g
  ELSE [g EXCEPT !.fbos = {[h EXCEPT !.gen = g.gen + 1] : h \in g.fbos},
                 !.textures = {[h EXCEPT !.gen = g.gen + 1] : h \in g.textures},
                 !.gen = g.gen + 1]

\* the GPU objects after the event loop has handled key: no key handler
\* creates or deletes a framebuffer, a texture or a program
CppEventsGpu(g, key) == g

\* Renderer::m_basicShader, which every scene primitive is drawn with
CppBasicShader == Handle("program", 0, "basic", 1)

\* the part of the loop body before rendering, in program order
CppMutations ==
  <<Mutation("events"), Mutation("spawn"), Mutation("aircraft update"),
    Mutation("missiles update"), Mutation("missiles erase"),
    Mutation("explosions update"), Mutation("explosions erase")>>

\* variant: the scene drawn with the default framebuffer bound
CppSceneToScreen(ac, ms, ex) ==
  <<FrameOp("clear", "", NullHandle, <<>>, Screen(0)),
    FrameOp("draw", "map", CppBasicShader, <<>>, Screen(0))>>
  \o Draws("aircraft", Len(ac), CppBasicShader, Screen(0))
  \o Draws("missile", Len(ms), CppBasicShader, Screen(0))
  \o Draws("explosion", Len(ex), CppBasicShader, Screen(0))

\* "Render scene to framebuffer": map, aircraft, missiles, explosions
CppScene(ac, ms, ex) ==
  LET sceneFbo == Handle("fbo", 0, "scene", 1)
  IN  <<FrameOp("clear", "", NullHandle, <<>>, sceneFbo),
        FrameOp("draw", "map", CppBasicShader, <<>>, sceneFbo)>>
      \o Draws("aircraft", Len(ac), CppBasicShader, sceneFbo)
      \o Draws("missile", Len(ms), CppBasicShader, sceneFbo)
      \o Draws("explosion", Len(ex), CppBasicShader, sceneFbo)

\* variant: FULL with the composite pass reading the scene texture in place
\* of the chromatic output
CppPostProcessSceneComposite(mode, g) ==
  LET tex(n) == Handle("texture", 0, n, 1)
      fbo(n) == Handle("fbo", 0, n, 1)
      pass(what, shader, reads, target) ==
        FrameOp("pass", what, g.programs[shader], reads, target)
  IN  CASE mode = "OFF" ->
             <<FrameOp("blit", "scene", g.programs["screen"], <<tex("scene")>>, Screen(0))>>
        [] mode = "LIGHT" ->
             <<pass("composite", "composite",
                    <<tex("scene"), tex("scene"), tex("scanline"), tex("vignette")>>,
                    Screen(0))>>
        [] mode = "FULL" ->
             <<pass("barrel", "barrel", <<tex("scene")>>, fbo("postA")),
               pass("chromatic", "chromatic", <<tex("postA")>>, fbo("postB")),
               pass("bloomH", "bloom", <<tex("postB")>>, fbo("pingpong0")),
               pass("bloomV", "bloom", <<tex("pingpong0")>>, fbo("pingpong1")),
               pass("composite", "composite",
                    <<tex("scene"), tex("pingpong1"), tex("scanline"), tex("vignette")>>,
                    Screen(0))>>

\* variant: LIGHT with the composite pass taking the bloom input from the
\* second ping-pong texture, which only a FULL frame writes
CppPostProcessStaleBloom(mode, g) ==
  LET tex(n) == Handle("texture", 0, n, 1)
      fbo(n) == Handle("fbo", 0, n, 1)
      pass(what, shader, reads, target) ==
        FrameOp("pass", what, g.programs[shader], reads, target)
  IN  CASE mode = "OFF" ->
             <<FrameOp("blit", "scene", g.programs["screen"], <<tex("scene")>>, Screen(0))>>
        [] mode = "LIGHT" ->
             <<pass("composite", "composite",
                    <<tex("scene"), tex("pingpong1"), tex("scanline"), tex("vignette")>>,
                    Screen(0))>>
        [] mode = "FULL" ->
             <<pass("barrel", "barrel", <<tex("scene")>>, fbo("postA")),
               pass("chromatic", "chromatic", <<tex("postA")>>, fbo("postB")),
               pass("bloomH", "bloom", <<tex("postB")>>, fbo("pingpong0")),
               pass("bloomV", "bloom", <<tex("pingpong0")>>, fbo("pingpong1")),
               pass("composite", "composite",
                    <<tex("postB"), tex("pingpong1"), tex("scanline"), tex("vignette")>>,
                    Screen(0))>>

\* the post-process chain of the loop body, by crtMode.  The composite pass
\* reads <<sceneTexture, bloomTexture, scanlineTexture, vignetteTexture>>.
CppPostProcess(mode, g) ==
  LET tex(n) == Handle("texture", 0, n, 1)
      fbo(n) == Handle("fbo", 0, n, 1)
      pass(what, shader, reads, target) ==
        FrameOp("pass", what, g.programs[shader], reads, target)
  IN  CASE mode = "OFF" ->
             <<FrameOp("blit", "scene", g.programs["screen"], <<tex("scene")>>, Screen(0))>>
        [] mode = "LIGHT" ->
             <<pass("composite", "composite",
                    <<tex("scene"), tex("scene"), tex("scanline"), tex("vignette")>>,
                    Screen(0))>>
        [] mode = "FULL" ->
             <<pass("barrel", "barrel", <<tex("scene")>>, fbo("postA")),
               pass("chromatic", "chromatic", <<tex("postA")>>, fbo("postB")),
               pass("bloomH", "bloom", <<tex("postB")>>, fbo("pingpong0")),
               pass("bloomV", "bloom", <<tex("pingpong0")>>, fbo("pingpong1")),
               pass("composite", "composite",
                    <<tex("postB"), tex("pingpong1"), tex("scanline"), tex("vignette")>>,
                    Screen(0))>>

\* one iteration of the main loop, as the operations it performs
CppFrameOps(ac, ms, ex, mode, g) ==
  CppMutations \o CppScene(ac, ms, ex) \o CppPostProcess(mode, g)
  \o <<FrameOp("present", "", NullHandle, <<>>, Screen(0))>>

\* the body of the missile loop: update, then push an explosion if finished
MissileStep(m, dt) ==
  LET u == MissileUpdate(m, dt)
  IN  IF MissileIsFinished(u) THEN [u EXCEPT !.pushed = @ + 1] ELSE u

\* the update and removal part of the loop body, on the missiles ms
CppUpdate(ms, dt) ==
  LET upd       == MapSeq(ms, LAMBDA m : MissileStep(m, dt))
      finished  == IndicesFrom(upd, MissileIsFinished, 1)
      pushed    == explosions \o [k \in 1..Len(finished) |-> NewExplosion]
      kept      == SelectSeq(upd, LAMBDA m : ~MissileIsFinished(m))
      updExpl   == MapSeq(pushed, LAMBDA e : ExplosionUpdate(e, dt))
  IN  /\ aircraft' = MapSeq(aircraft, LAMBDA a : AircraftUpdate(a, dt))
      /\ updatedMissiles' = upd
      /\ missiles' = kept
      /\ updatedExplosions' = updExpl
      /\ explosions' = SelectSeq(updExpl, LAMBDA e : ~ExplosionIsFinished(e))
      /\ frameLog' = LogOf(finished, "explode") \o LogOf(finished, "erase")

\* The loop body does not touch tracked, which is history; the specification
\* that takes the frame says what becomes of it.
CppFrame(raw, key) ==
  LET dt       == CapDelta(raw)
      burst    == IF key = "space" THEN Burst(missiles) ELSE missiles
      elapsed  == timeSinceLastLaunch + dt
      interval == IF key = "r" THEN DefaultLaunchInterval ELSE launchInterval
      launch   == elapsed >= interval
      spawned  == IF launch THEN Append(burst, NewMissile) ELSE burst
  IN  /\ impl = "cpp"
      /\ running
      /\ Len(spawned) <= MaxMissiles
      /\ running' = running
      /\ launchInterval' = interval
      /\ crtMode' = IF key = "c" THEN CycleCrtMode(crtMode) ELSE crtMode
      /\ timeSinceLastLaunch' = IF launch THEN 0 ELSE elapsed
      /\ CppUpdate(spawned, dt)
      /\ gpu' = CppEventsGpu(gpu, key)
      /\ frameOps' = CppFrameOps(aircraft', missiles', explosions', crtMode', gpu')
      /\ UNCHANGED <<impl, game, splitVars, unitVars, webVars>>

\* loopSeconds = randomFloat(20.0f, 60.0f)
LoopSeconds == {200}

CppStart(isRunning, g) ==
  /\ impl = "cpp"
  /\ game = GameIdle
  /\ tracked = NotTracked
  /\ SplitIdle /\ UnitIdle /\ WebIdle
  /\ missiles = <<>>
  /\ explosions = <<>>
  /\ aircraft \in [1..AircraftCount -> [progress : {0}, duration : LoopSeconds, fleet : {1}]]
  /\ running = isRunning
  /\ crtMode = "OFF"
  /\ launchInterval = DefaultLaunchInterval
  /\ timeSinceLastLaunch = DefaultLaunchInterval
  /\ updatedMissiles = <<>>
  /\ updatedExplosions = <<>>
  /\ frameLog = <<>>
  /\ gpu = g
  /\ frameOps = <<>>

\* main() up to the main loop, every set-up step succeeding
InitCpp == CppStart(TRUE, CppGpu({}))

\* timeSinceLastLaunch >= launchInterval, after timeSinceLastLaunch += deltaTime
LaunchDue(raw) == timeSinceLastLaunch + CapDelta(raw) >= launchInterval

\* the frames of the model: any wall-clock delta, at most one key per frame,
\* and the burst key only in a frame that also launches a missile
NextCpp ==
  \E raw \in 0..MaxRawDelta, key \in Keys :
    /\ key = "space" => LaunchDue(raw)
    /\ CppFrame(raw, key)
    /\ UNCHANGED tracked

SpecCpp == InitCpp /\ [][NextCpp]_vars

(***************************************************************************)
(* Web front-end: SimulationState and WargamesApp.                         *)
(***************************************************************************)
\* new Missile(start, target).  pushed counts the explosions the loop has
\* pushed on the missile's behalf.
NewWebMissile(progress) ==
  [progress |-> progress, finished |-> FALSE, exploded |-> FALSE, pushed |-> 0]

\* new Explosion(lat, lon, startTime)
NewWebExplosion(startTime) == [startTime |-> startTime, finished |-> FALSE]

\* speed of the n-th aircraft of createAircraftFleet
FleetSpeed == <<30, 25, 20, 28, 15, 22, 35, 26, 24, 18, 27, 21>>

\* createAircraftFleet(), the n-th call, with the angles Math.random() drew
createAircraftFleet(n, angles) ==
  [i \in 1..AircraftCount |-> [angle |-> angles[i], speed |-> FleetSpeed[i], fleet |-> n]]

\* variant: the missile loop without "missile.exploded = true"
WebMissileStepNoFlag(m, dt) ==
  LET u == WebMissileUpdate(m, dt)
  IN  IF u.finished /\ ~u.exploded THEN [u EXCEPT !.pushed = @ + 1] ELSE u

\* the body of the missile loop of SimulationState.update
WebMissileStep(m, dt) ==
  LET u == WebMissileUpdate(m, dt)
  IN  IF u.finished /\ ~u.exploded
      THEN [u EXCEPT !.exploded = TRUE, !.pushed = @ + 1]
      ELSE u

\* does the missile loop push an explosion for m
WebMissileExplodes(m, dt) ==
  LET u == WebMissileUpdate(m, dt) IN u.finished /\ ~u.exploded

\* variant: update without the missile clean-up
WebMissileKeptAll(m) == TRUE

\* the filter of the missile clean-up: m => !m.finished || !m.exploded
WebMissileKept(m) == ~m.finished \/ ~m.exploded

\* SimulationState.update(deltaTime) while running: what it computes
WebUpdateResult(dt) ==
  LET now       == time + dt
      sinceLast == timeSinceLastSpawn + dt
      exploding == IndicesFrom(missiles, LAMBDA m : WebMissileExplodes(m, dt), 1)
      upd       == MapSeq(missiles, LAMBDA m : WebMissileStep(m, dt))
      pushed    == explosions \o [k \in 1..Len(exploding) |-> NewWebExplosion(now)]
      updExpl   == MapSeq(pushed, LAMBDA e : WebExplosionUpdate(e, now))
      spawn     == sinceLast >= missileSpawnInterval
      spawned   == IF spawn THEN Append(upd, NewWebMissile(0)) ELSE upd
      erased    == IndicesFrom(upd, LAMBDA m : ~WebMissileKept(m), 1)
  IN  [time               |-> now,
       timeSinceLastSpawn |-> IF spawn THEN 0 ELSE sinceLast,
       aircraft           |-> MapSeq(aircraft, LAMBDA a : WebAircraftUpdate(a, dt)),
       updatedMissiles    |-> upd,
       updatedExplosions  |-> updExpl,
       spawned            |-> spawned,
       missiles           |-> SelectSeq(spawned, WebMissileKept),
       explosions         |-> SelectSeq(updExpl, LAMBDA e : ~e.finished),
       frameLog           |-> LogOf(exploding, "explode") \o LogOf(erased, "erase")]

\* variant: update adding deltaTime to time before it tests running
WebUpdateTimeRuns(dt) ==
  IF ~simRunning
  THEN /\ time' = time + dt
       /\ UNCHANGED <<simVars, timeSinceLastSpawn, simRunning, fleets>>
       /\ updatedMissiles' = missiles
       /\ updatedExplosions' = explosions
       /\ frameLog' = <<>>
  ELSE LET r == WebUpdateResult(dt)
       IN  /\ Len(r.spawned) <= MaxMissiles
           /\ time' = r.time
           /\ timeSinceLastSpawn' = r.timeSinceLastSpawn
           /\ aircraft' = r.aircraft
           /\ updatedMissiles' = r.updatedMissiles
           /\ updatedExplosions' = r.updatedExplosions
           /\ missiles' = r.missiles
           /\ explosions' = r.explosions
           /\ frameLog' = r.frameLog
           /\ UNCHANGED <<simRunning, fleets>>

\* SimulationState.update(deltaTime): its effect on the state
WebUpdate(dt) ==
  IF ~simRunning
  THEN /\ UNCHANGED <<simVars, webVars>>
       /\ updatedMissiles' = missiles
       /\ updatedExplosions' = explosions
       /\ frameLog' = <<>>
  ELSE LET r == WebUpdateResult(dt)
       IN  /\ Len(r.spawned) <= MaxMissiles
           /\ time' = r.time
           /\ timeSinceLastSpawn' = r.timeSinceLastSpawn
           /\ aircraft' = r.aircraft
           /\ updatedMissiles' = r.updatedMissiles
           /\ updatedExplosions' = r.updatedExplosions
           /\ missiles' = r.missiles
           /\ explosions' = r.explosions
           /\ frameLog' = r.frameLog
           /\ UNCHANGED <<simRunning, fleets>>

\* the screens of the layout in use: layouts.tablet of screen-configs.json
WebScreenTypes == <<"GLOBAL_MAP", "NORTH_AMERICA", "EUROPE", "STATUS_PANEL">>

\* the screens createScreen gives a Renderer
GraphicalScreens ==
  {k \in 1..Len(WebScreenTypes) :
     WebScreenTypes[k] \notin {"STATUS_PANEL", "TARGET_LIST", "DEFCON_STATUS", "TICTACTOE"}}

\* Renderer.compileShaders
WebShaderNames == {"basic", "barrel", "chromatic", "bloom", "composite"}

\* Renderer.createFramebuffers
WebFboNames == {"scene", "temp1", "temp2", "bloomH", "bloomV"}

\* Renderer.createTextures
WebTextureNames == {"scanline", "vignette"}

\* the GPU objects new Renderer(canvas, assets) creates for screen k, as the
\* gen-th creation
RendererObjects(k, gen) ==
  [programs |-> {Handle("program", k, n, gen) : n \in WebShaderNames},
   fbos     |-> {Handle("fbo", k, n, gen) : n \in WebFboNames},
   textures |-> {Handle("texture", k, n, gen) : n \in WebFboNames \cup WebTextureNames}]

\* the GPU objects after createScreens, as the gen-th creation; current[k]
\* is the creation renderer k's framebuffers and textures fields refer to
WebGpu(gen) ==
  [programs   |-> UNION {RendererObjects(k, gen).programs : k \in GraphicalScreens},
   fbos       |-> UNION {RendererObjects(k, gen).fbos : k \in GraphicalScreens},
   textures   |-> UNION {RendererObjects(k, gen).textures : k \in GraphicalScreens},
   incomplete |-> {},
   gen        |-> gen,
   failed     |-> {},
   ok         |-> TRUE,
   current    |-> [k \in GraphicalScreens |-> [programs |-> gen, targets |-> gen]]]

\* gameLoop's call of SimulationState.update, which makes every write of
\* the frame to the simulation state (none when paused)
WebMutations == <<Mutation("update")>>

\* ScreenManager.renderGraphicalScreen for screen k.  Every entity is taken
\* to be in view.
WebGraphicalScreen(k, ms, ex, ac, g) ==
  LET basic == Handle("program", k, "basic", g.current[k].programs)
  IN  <<FrameOp("clear", "", NullHandle, <<>>, Screen(k)),
        FrameOp("draw", "map", basic, <<>>, Screen(k))>>
      \o Draws("missile", Len(ms), basic, Screen(k))
      \o Draws("explosion", Len(ex), basic, Screen(k))
      \o Draws("aircraft", Len(ac), basic, Screen(k))

\* ScreenManager.render: the screens from index k on
RECURSIVE WebScreensFrom(_, _, _, _, _)
WebScreensFrom(k, ms, ex, ac, g) ==
  IF k > Len(WebScreenTypes) THEN <<>>
  ELSE (IF k \in GraphicalScreens
        THEN WebGraphicalScreen(k, ms, ex, ac, g)
        ELSE <<FrameOp("text", WebScreenTypes[k], NullHandle, <<>>, Screen(k))>>)
       \o WebScreensFrom(k + 1, ms, ex, ac, g)

\* variant: gameLoop rendering before it updates
WebFrameOpsRenderFirst(ms, ex, ac, g) ==
  <<FrameOp("tictactoe", "update", NullHandle, <<>>, NullHandle)>>
  \o WebScreensFrom(1, ms, ex, ac, g)
  \o WebMutations

\* WargamesApp.gameLoop as the operations it performs
WebFrameOps(ms, ex, ac, g) ==
  WebMutations
  \o <<FrameOp("tictactoe", "update", NullHandle, <<>>, NullHandle)>>
  \o WebScreensFrom(1, ms, ex, ac, g)

\* WargamesApp.gameLoop(timestamp), raw = timestamp / 1000 - lastTime
WebGameLoop(raw) ==
  /\ impl = "web"
  /\ time + Min(raw, DT_CAP) <= MaxSimTime
  /\ WebUpdate(Min(raw, DT_CAP))
  /\ frameOps' = WebFrameOps(missiles', explosions', aircraft', gpu)
  /\ UNCHANGED <<impl, game, tracked, splitVars, unitVars, cppVars, gpu>>

\* variant: reset() without "this.aircraft = createAircraftFleet()"
WebResetKeepsFleet(progress, angles) ==
  /\ impl = "web"
  /\ fleets < MaxFleets
  /\ missiles' = MapSeq(progress, NewWebMissile)
  /\ explosions' = <<>>
  /\ fleets' = fleets + 1
  /\ time' = 0
  /\ timeSinceLastSpawn' = 0
  /\ UNCHANGED <<impl, game, tracked, aircraft, simRunning, splitVars, unitVars, cppVars, obsVars, gfxVars>>

\* key "r": SimulationState.reset(), with what Math.random() drew
WebReset(progress, angles) ==
  /\ impl = "web"
  /\ fleets < MaxFleets
  /\ missiles' = MapSeq(progress, NewWebMissile)
  /\ explosions' = <<>>
  /\ aircraft' = createAircraftFleet(fleets + 1, angles)
  /\ fleets' = fleets + 1
  /\ time' = 0
  /\ timeSinceLastSpawn' = 0
  /\ UNCHANGED <<impl, game, tracked, simRunning, splitVars, unitVars, cppVars, obsVars, gfxVars>>

\* key "p" or " ": SimulationState.pause() / resume()
WebPauseResume ==
  /\ impl = "web"
  /\ simRunning' = ~simRunning
  /\ UNCHANGED <<impl, game, tracked, time, timeSinceLastSpawn, fleets, simVars,
                 splitVars, unitVars, cppVars, obsVars, gfxVars>>

\* what Math.random() draws for initializeSimulation and createAircraftFleet
InitialBatches == [1..WebInitialBatch -> WebInitialProgress]
FleetAngles == [1..AircraftCount -> WebInitialAngle]

\* new SimulationState(...); initializeSimulation()
WebStart(g) ==
  /\ impl = "web"
  /\ game = GameIdle
  /\ tracked = NotTracked
  /\ SplitIdle /\ UnitIdle /\ CppIdle
  /\ \E progress \in InitialBatches : missiles = MapSeq(progress, NewWebMissile)
  /\ explosions = <<>>
  /\ \E angles \in FleetAngles : aircraft = createAircraftFleet(1, angles)
  /\ fleets = 1
  /\ time = 0
  /\ timeSinceLastSpawn = 0
  /\ simRunning = TRUE
  /\ updatedMissiles = <<>>
  /\ updatedExplosions = <<>>
  /\ frameLog = <<>>
  /\ gpu = g
  /\ frameOps = <<>>

\* WargamesApp.init, every step succeeding
InitWeb == WebStart(WebGpu(1))

NextWeb ==
  \/ \E raw \in 0..MaxRawDelta : WebGameLoop(raw)
  \/ \E progress \in InitialBatches, angles \in FleetAngles : WebReset(progress, angles)
  \/ WebPauseResume

SpecWeb == InitWeb /\ [][NextWeb]_vars

(***************************************************************************)
(* Specification SpecClock: the web front-end with the page's clock.       *)
(* uTime holds WargamesApp.lastTime, the currentTime of the last frame     *)
(* (timestamp / 1000, in tenths of a second); time is SimulationState.time.*)
(* output holds the entity draws of the last render of a global screen,    *)
(* splitPc tells whether gameLoop made it ("rendered") or a further call   *)
(* of ScreenManager.render ("renderedAgain").                              *)
(***************************************************************************)
MaxClock == 52

\* performance.now() / 1000 when init starts the loop: at once, or after
\* two seconds of loading
LoadTimes == {0, 20}

\* timestamp / 1000 - lastTime of a frame: on time, or late
ClockDeltas == DT_CAP..MaxRawDelta

\* Missile.render: what is drawn follows from progress and the path
WebMissileRenderDraw(m) == [what |-> "missile", progress |-> m.progress]

\* Explosion.render(renderer, currentTime, null): the rings drawn
WebExplosionRender(e, currentTime) ==
  LET elapsed == currentTime - e.startTime
  IN  [what    |-> "explosion",
       elapsed |-> elapsed,
       rings   |-> {i \in 1..NUM_RINGS : WebExplosionRendersRing(elapsed, i)}]

\* Aircraft.render: what is drawn follows from the angle
WebAircraftRenderDraw(a) == [what |-> "aircraft", angle |-> a.angle]

\* ScreenManager.renderGraphicalScreen(screen, time) with viewport = null:
\* the entity draws between beginScene and endScene
renderGraphicalScreen(ms, ex, ac, currentTime) ==
  MapSeq(ms, WebMissileRenderDraw)
  \o MapSeq(ex, LAMBDA e : WebExplosionRender(e, currentTime))
  \o MapSeq(ac, WebAircraftRenderDraw)

\* WargamesApp.init from "this.running = true" on
InitClock ==
  /\ impl = "web"
  /\ game = GameIdle
  /\ tracked = NotTracked
  /\ points = <<>> /\ output = <<>> /\ splitPc = "idle"
  /\ CppIdle
  /\ uMissile = [progress |-> 0]
  /\ uWebMissile = [progress |-> 0, finished |-> FALSE]
  /\ uExplosion = [age |-> 0]
  /\ uWebExplosion = [startTime |-> 0, finished |-> FALSE]
  /\ uAircraft = [progress |-> 0, duration |-> 300]
  /\ uWebAircraft = [angle |-> 0, speed |-> 30]
  /\ uTime \in LoadTimes
  /\ uDt = 0
  /\ \E progress \in InitialBatches : missiles = MapSeq(progress, NewWebMissile)
  /\ explosions = <<>>
  /\ \E angles \in FleetAngles : aircraft = createAircraftFleet(1, angles)
  /\ fleets = 1
  /\ time = 0
  /\ timeSinceLastSpawn = 0
  /\ simRunning = TRUE
  /\ updatedMissiles = <<>>
  /\ updatedExplosions = <<>>
  /\ frameLog = <<>>
  /\ gpu = WebGpu(1)
  /\ frameOps = <<>>

\* WargamesApp.gameLoop(timestamp), raw = timestamp / 1000 - lastTime
ClockGameLoop(raw) ==
  /\ impl = "web"
  /\ time + Min(raw, DT_CAP) <= MaxSimTime
  /\ uTime + raw <= MaxClock
  /\ uTime' = uTime + raw
  /\ uDt' = raw
  /\ WebUpdate(Min(raw, DT_CAP))
  /\ frameOps' = WebFrameOps(missiles', explosions', aircraft', gpu)
  /\ output' = renderGraphicalScreen(missiles', explosions', aircraft', uTime')
  /\ splitPc' = "rendered"
  /\ UNCHANGED <<impl, game, tracked, points, uMissile, uWebMissile, uExplosion, uWebExplosion,
                 uAircraft, uWebAircraft, cppVars, gpu>>

\* screenManager.render(time) once more, raw after the frame's currentTime
ClockRender(raw) ==
  /\ impl = "web"
  /\ splitPc \in {"rendered", "renderedAgain"}
  /\ output' = renderGraphicalScreen(missiles, explosions, aircraft, uTime + raw)
  /\ splitPc' = "renderedAgain"
  /\ UNCHANGED <<impl, game, tracked, points, unitVars, cppVars, webVars, simVars, obsVars, gfxVars>>

NextClock ==
  \/ \E raw \in ClockDeltas : ClockGameLoop(raw)
  \/ \E raw \in 0..DT_CAP : ClockRender(raw)
  \/ WebPauseResume

SpecClock == InitClock /\ [][NextClock]_vars

(***************************************************************************)
(* Specification SpecTicTacToe: the calls of ticTacToeGame.update that     *)
(* ScreenManager.render makes, one per frame.  Frames keep coming.         *)
(***************************************************************************)
\* ticks of the page's clock between two frames: 60 or 30 frames a second
TickDeltas == {1, 2}

InitTicTacToe ==
  /\ impl = "tictactoe"
  /\ game = NewGame
  /\ tracked = NotTracked
  /\ SplitIdle /\ UnitIdle /\ CppIdle /\ WebIdle /\ SimIdle

\* ScreenManager.render(time): this.ticTacToeGame.update(1/60, time)
TicTacToeRender(raw) ==
  /\ impl = "tictactoe"
  /\ \E r \in RandomIndex(Len(available(game.board))) :
       game' = update(game, raw, r)
  /\ UNCHANGED <<impl, tracked, splitVars, unitVars, cppVars, webVars, simVars, obsVars, gfxVars>>

NextTicTacToe == \E raw \in TickDeltas : TicTacToeRender(raw)

SpecTicTacToe ==
  InitTicTacToe /\ [][NextTicTacToe]_vars /\ WF_vars(NextTicTacToe)

(***************************************************************************)
(* Specification Spec: a run of either front-end.                          *)
(***************************************************************************)
Init == InitCpp \/ InitWeb

Next == NextCpp \/ NextWeb

Spec == Init /\ [][Next]_vars

(***************************************************************************)
(* Specification SpecStall: a run of either front-end in which every frame *)
(* comes after a stall: the wall-clock time since the previous frame       *)
(* exceeds the cap.                                                        *)
(***************************************************************************)
StallDeltas == (DT_CAP + 1)..MaxRawDelta

CppStalledFrame ==
  \E raw \in StallDeltas, key \in Keys :
    /\ key = "space" => LaunchDue(raw)
    /\ CppFrame(raw, key)
    /\ UNCHANGED tracked

WebStalledFrame == \E raw \in StallDeltas : WebGameLoop(raw)

NextStall ==
  \/ CppStalledFrame
  \/ WebStalledFrame
  \/ \E progress \in InitialBatches, angles \in FleetAngles : WebReset(progress, angles)
  \/ WebPauseResume

SpecStall == Init /\ [][NextStall]_vars

(***************************************************************************)
(* Specification SpecGpu: the GPU objects of both front-ends, from a       *)
(* set-up in which one step may fail, through frames, display-mode         *)
(* switches and resizes.                                                   *)
(***************************************************************************)
MaxGen == 3          \* creations of GPU objects in one run of the web page
MaxGpuTime == 8      \* web frames of a run

\* what fails in main()'s set-up: nothing, a post-process shader, the
\* scene framebuffer (incomplete)
CppFailures == {{}, {"barrel"}, {"composite"}, {"scene"}}

\* main() returned 1 before the loop: SDL_Init or renderer.initialize failed
CppGpuNone ==
  [programs   |-> [n \in CppShaderNames |-> NullHandle],
   fbos       |-> {},
   textures   |-> {},
   incomplete |-> {},
   gen        |-> 0,
   failed     |-> {"renderer"}]

\* Renderer.compileShaders and createFramebuffers, in creation order
WebShaderOrder == <<"basic", "barrel", "chromatic", "bloom", "composite">>
WebFboOrder == <<"scene", "temp1", "temp2", "bloomH", "bloomV">>

\* the members of order created before the step what threw (all of them
\* when what is not in order)
Before(order, what) ==
  {order[i] : i \in {j \in 1..Len(order) : \A m \in 1..j : order[m] # what}}

\* what the first Renderer's constructor can throw at: no WebGL context, a
\* shader that does not compile or link, an incomplete framebuffer
WebFailures == {"webgl", "barrel", "scene"}

\* the GPU objects left when the constructor of the first Renderer threw at
\* step what: WargamesApp.init catches the error and never starts the loop
WebGpuFailed(what) ==
  LET progs == IF what = "webgl" THEN {} ELSE Before(WebShaderOrder, what)
      fbs   == IF what \in WebFboNames THEN Before(WebFboOrder, what) \cup {what} ELSE {}
  IN  [programs   |-> {Handle("program", 1, n, 1) : n \in progs},
       fbos       |-> {Handle("fbo", 1, n, 1) : n \in fbs},
       textures   |-> {Handle("texture", 1, n, 1) : n \in fbs},
       incomplete |-> {Handle("fbo", 1, n, 1) : n \in fbs \cap {what}},
       gen        |-> 1,
       failed     |-> {what},
       ok         |-> FALSE,
       current    |-> [k \in GraphicalScreens |-> [programs |-> 1, targets |-> 1]]]

\* the objects renderer k's programs, framebuffers and textures fields hold
RendererCurrent(k, g) ==
  [programs |-> RendererObjects(k, g.current[k].programs).programs,
   fbos     |-> RendererObjects(k, g.current[k].targets).fbos,
   textures |-> RendererObjects(k, g.current[k].targets).textures]

\* ScreenManager.resize: disposeScreens, then a new Renderer per screen
ScreenManagerResizeGpu(g) ==
  LET new == WebGpu(g.gen + 1)
      old(kind) == UNION {RendererCurrent(k, g)[kind] : k \in GraphicalScreens}
  IN  [new EXCEPT !.programs = (g.programs \ old("programs")) \cup new.programs,
                  !.fbos = (g.fbos \ old("fbos")) \cup new.fbos,
                  !.textures = (g.textures \ old("textures")) \cup new.textures]

\* Renderer.resize of renderer k: createFramebuffers and createTextures
\* overwrite the fields; the objects they held are not deleted
RendererResizeGpu(k, g) ==
  LET new == RendererObjects(k, g.gen + 1)
  IN  [g EXCEPT !.fbos = @ \cup new.fbos,
                !.textures = @ \cup new.textures,
                !.gen = @ + 1,
                !.current[k].targets = g.gen + 1]

\* Renderer.applyPostProcessing of renderer k.  The composite pass reads
\* <<uTexture, uBloomTexture, uScanlineTexture, uVignetteTexture>>.
WebPostProcess(k, g) ==
  LET tex(n) == Handle("texture", k, n, g.current[k].targets)
      fbo(n) == Handle("fbo", k, n, g.current[k].targets)
      pass(what, shader, reads, target) ==
        FrameOp("pass", what, Handle("program", k, shader, g.current[k].programs),
                reads, target)
  IN  <<pass("barrel", "barrel", <<tex("scene")>>, fbo("temp1")),
        pass("chromatic", "chromatic", <<tex("temp1")>>, fbo("temp2")),
        pass("bloomH", "bloom", <<tex("temp2")>>, fbo("bloomH")),
        pass("bloomV", "bloom", <<tex("bloomH")>>, fbo("bloomV")),
        pass("composite", "composite",
             <<tex("temp2"), tex("bloomV"), tex("scanline"), tex("vignette")>>,
             Screen(k))>>

\* main() up to the main loop, or to the return that ends the program
InitGpuCpp ==
  \/ \E failed \in CppFailures : CppStart(TRUE, CppGpu(failed))
  \/ CppStart(FALSE, CppGpuNone)

\* WargamesApp.init
InitGpuWeb ==
  \/ WebStart(WebGpu(1))
  \/ \E what \in WebFailures : WebStart(WebGpuFailed(what))

InitGpu == InitGpuCpp \/ InitGpuWeb

\* a frame of the C++ loop, with or without the c key
CppGpuFrame == \E key \in {"none", "c"} : CppFrame(DT_CAP, key) /\ UNCHANGED tracked

\* a frame of the web loop, which init starts only when nothing threw
WebGpuFrame ==
  /\ impl = "web"
  /\ gpu.ok
  /\ time < MaxGpuTime
  /\ WebGameLoop(DT_CAP)

\* the resize timer of setupResizeHandler fires
ScreenManagerResize ==
  /\ impl = "web"
  /\ gpu.ok
  /\ gpu.gen < MaxGen
  /\ gpu' = ScreenManagerResizeGpu(gpu)
  /\ UNCHANGED <<impl, game, tracked, splitVars, unitVars, cppVars, webVars, simVars, obsVars, frameOps>>

\* renderer.resize(width, height) on the renderer of screen k
RendererResize(k) ==
  /\ impl = "web"
  /\ gpu.ok
  /\ gpu.gen < MaxGen
  /\ gpu' = RendererResizeGpu(k, gpu)
  /\ UNCHANGED <<impl, game, tracked, splitVars, unitVars, cppVars, webVars, simVars, obsVars, frameOps>>

\* renderer.applyPostProcessing(time) on the renderer of screen k
RendererApplyPostProcessing(k) ==
  /\ impl = "web"
  /\ gpu.ok
  /\ frameOps' = WebPostProcess(k, gpu)
  /\ UNCHANGED <<impl, game, tracked, splitVars, unitVars, cppVars, webVars, simVars, obsVars, gpu>>

NextGpu ==
  \/ CppGpuFrame
  \/ WebGpuFrame
  \/ ScreenManagerResize
  \/ \E k \in GraphicalScreens : RendererResize(k)
  \/ \E k \in GraphicalScreens : RendererApplyPostProcessing(k)

SpecGpu == InitGpu /\ [][NextGpu]_vars

(***************************************************************************)
(* Properties of the antimeridian split (SpecSplit).                       *)
(***************************************************************************)
\* two consecutive points lie more than half the screen width apart
PairCrosses(p, q) ==
  (p.x - q.x) * 2 > SCREEN_WIDTH \/ (q.x - p.x) * 2 > SCREEN_WIDTH

NoPairCrosses(seg) ==
  \A k \in 1..(Len(seg) - 1) : ~PairCrosses(seg[k], seg[k + 1])

\* C9: no segment returned by splitAtAntimeridian contains two consecutive
\* points whose horizontal screen distance exceeds half the screen width.
C9_NoSegmentSpansAntimeridian ==
  splitPc = "done" => \A s \in 1..Len(output) : NoPairCrosses(output[s])

\* a polyline with a crossing in the middle was split in two
C9_Witness ==
  /\ splitPc = "done"
  /\ Len(points) = 4
  /\ PairCrosses(points[2], points[3])
  /\ Len(output) = 2

\* C10 as stated: a polyline without a crossing pair comes back as exactly
\* one segment, equal to the input.
C10_AsStated ==
  (splitPc = "done" /\ NoPairCrosses(points)) => output = <<points>>

\* C10, amended: a polyline of at least two points without a crossing pair
\* comes back as exactly one segment, equal to the input; a polyline of
\* fewer than two points comes back as no segment at all.
C10_NonCrossingPolylineIsOneSegment ==
  splitPc = "done" =>
    /\ (Len(points) >= 2 /\ NoPairCrosses(points)) => output = <<points>>
    /\ Len(points) < 2 => output = <<>>

\* a polyline with a pair exactly half the width apart came back whole
C10_Witness ==
  /\ splitPc = "done"
  /\ Len(points) >= 3
  /\ NoPairCrosses(points)
  /\ \E k \in 1..(Len(points) - 1) : 2 * Abs(points[k + 1].x - points[k].x) = SCREEN_WIDTH
  /\ output = <<points>>

\* the positions k at which the pair (pts[k], pts[k + 1]) crosses
Crossings(pts) == {k \in 1..(Len(pts) - 1) : PairCrosses(pts[k], pts[k + 1])}

\* C11 as stated: a polyline with exactly one crossing pair comes back as
\* exactly two segments, wherever the crossing pair lies.
C11_AsStated ==
  (splitPc = "done" /\ Cardinality(Crossings(points)) = 1) => Len(output) = 2

\* C11, amended: a polyline with exactly one crossing pair comes back as the
\* part before the crossing followed by the part after it, each only if it
\* has at least two points: two segments when the crossing pair is neither
\* the first nor the last pair, one segment when it is the first or the last
\* pair of a longer polyline, no segment when the polyline is the pair alone.
C11_SingleCrossingSegments ==
  (splitPc = "done" /\ Cardinality(Crossings(points)) = 1) =>
    LET k      == CHOOSE c \in Crossings(points) : TRUE
        before == IF k > 1 THEN <<SubSeq(points, 1, k)>> ELSE <<>>
        after  == IF k + 1 < Len(points)
                  THEN <<SubSeq(points, k + 1, Len(points))>> ELSE <<>>
    IN  output = before \o after

\* the first pair of a four-point polyline crosses and one segment came back
C11_Witness ==
  /\ splitPc = "done"
  /\ Len(points) = 4
  /\ Crossings(points) = {1}
  /\ output = <<SubSeq(points, 2, 4)>>

(***************************************************************************)
(* Properties of the trail drawing (SpecTrail).                            *)
(***************************************************************************)
\* C12 as stated: no line strip handed to the drawing primitive for a
\* missile trail contains two consecutive points more than half the canvas
\* width apart, in the C++ draw and in the web render.
C12_AsStated ==
  splitPc \in {"cppDrawn", "webDrawn"} =>
    \A s \in 1..Len(output) : NoPairCrosses(output[s])

\* C12, the C++ front-end alone
C12_CppTrailSegmented ==
  splitPc = "cppDrawn" => \A s \in 1..Len(output) : NoPairCrosses(output[s])

\* the web render handed over a strip that spans the antimeridian
C12_WebStripSpansAntimeridian ==
  /\ splitPc = "webDrawn"
  /\ \E s \in 1..Len(output) : ~NoPairCrosses(output[s])

C4_FinishedIffProgressOne ==
  /\ MissileIsFinished(uMissile) <=> uMissile.progress = MissileDuration
  /\ uWebMissile.finished <=> uWebMissile.progress = MissileDuration

\* both missiles are finished, and were updated again after finishing
C4_Witness ==
  /\ impl = "unit"
  /\ MissileIsFinished(uMissile)
  /\ uWebMissile.finished
  /\ uTime > MissileDuration + DT_CAP

\* the window of ring i as the specification gives it
RingWindow(age, i) ==
  /\ 0 <= age - RING_DELAYS[i]
  /\ age - RING_DELAYS[i] <= ExplosionDuration - RING_DELAYS[i]

\* the window of ring i in the C++ front-end: every ring lasts as long as
\* the last one, the duration minus the last ring's delay
RingWindowCpp(age, i) ==
  /\ 0 <= age - RING_DELAYS[i]
  /\ age - RING_DELAYS[i] <= ExplosionDuration - RING_DELAYS[NUM_RINGS]

\* C6 as stated: in both front-ends ring i is drawn exactly when
\* 0 <= age - delay_i <= duration - delay_i.
C6_AsStated ==
  \A i \in 1..NUM_RINGS :
    /\ ExplosionDrawsRing(uExplosion.age, i) <=> RingWindow(uExplosion.age, i)
    /\ WebExplosionRendersRing(uTime - uWebExplosion.startTime, i)
         <=> RingWindow(uTime - uWebExplosion.startTime, i)

\* C6, amended: the web front-end draws ring i exactly when
\* 0 <= age - delay_i <= duration - delay_i; the C++ front-end draws it
\* exactly when 0 <= age - delay_i <= duration - delay of the last ring.
C6_RingWindows ==
  \A i \in 1..NUM_RINGS :
    /\ ExplosionDrawsRing(uExplosion.age, i) <=> RingWindowCpp(uExplosion.age, i)
    /\ WebExplosionRendersRing(uTime - uWebExplosion.startTime, i)
         <=> RingWindow(uTime - uWebExplosion.startTime, i)

\* an unfinished explosion whose first ring the web draws and C++ does not
C6_Witness ==
  /\ impl = "unit"
  /\ uExplosion.age < ExplosionDuration
  /\ uTime - uWebExplosion.startTime = uExplosion.age
  /\ WebExplosionRendersRing(uExplosion.age, 1)
  /\ ~ExplosionDrawsRing(uExplosion.age, 1)

\* C7 as stated: an aircraft update leaves progress = (previous + dt/period)
\* mod 1, always in [0, 1); a period of 30 updated by 15 twice gives 0.5 and
\* then 0.  Both front-ends (the web aircraft's progress is angle / 2 pi).
C7_AsStated ==
  /\ [](/\ 0 <= uAircraft.progress /\ uAircraft.progress < uAircraft.duration
        /\ 0 <= uWebAircraft.angle /\ uWebAircraft.angle < TWO_PI)
  /\ [][/\ uAircraft'.progress = (uAircraft.progress + uDt') % uAircraft.duration
        /\ uWebAircraft'.angle
             = (uWebAircraft.angle + uWebAircraft.speed * uDt') % TWO_PI]_vars

\* C7, the C++ front-end alone
C7_CppAircraftWraps ==
  /\ [](0 <= uAircraft.progress /\ uAircraft.progress < uAircraft.duration)
  /\ [][uAircraft'.progress = (uAircraft.progress + uDt') % uAircraft.duration]_vars

\* the web aircraft's angle has reached or passed a full turn
C7_WebAngleNotWrapped == impl = "unit" /\ uWebAircraft.angle >= TWO_PI

(***************************************************************************)
(* Properties of the simulation loops (Spec).                              *)
(***************************************************************************)
\* a frame of either front-end
FrameStep == NextCpp \/ \E raw \in 0..MaxRawDelta : WebGameLoop(raw)

\* SimulationState.reset()
ResetStep == \E progress \in InitialBatches, angles \in FleetAngles : WebReset(progress, angles)

\* the missile has reached its target: progress 1
ReachedTarget(m) == m.progress = MissileDuration

\* how often the last frame did op to the i-th missile of its update loop
LogCount(op, i) ==
  Cardinality({k \in 1..Len(frameLog) : frameLog[k] = [op |-> op, idx |-> i]})

\* the missiles of ms that have reached their target
NumReached(ms) == Cardinality({i \in 1..Len(ms) : ReachedTarget(ms[i])})

\* C1: over its whole lifetime a missile has at most one explosion pushed on
\* its behalf, and exactly one once it has reached progress 1: the frame in
\* which it reaches 1 pushes one explosion for it, a frame in which it has
\* not pushes none, and the explosion collection grows by one per missile
\* that reached 1 in the frame.  Both front-ends.
C1_ExactlyOneExplosionPerMissile ==
  /\ [](/\ \A i \in 1..Len(updatedMissiles) :
             LET m == updatedMissiles[i]
             IN  /\ m.pushed <= 1
                 /\ ReachedTarget(m) => m.pushed = 1
                 /\ LogCount("explode", i) = IF ReachedTarget(m) THEN 1 ELSE 0
        /\ \A i \in 1..Len(missiles) :
             /\ missiles[i].pushed <= 1
             /\ ReachedTarget(missiles[i]) => missiles[i].pushed = 1)
  /\ [][FrameStep =>
          Len(updatedExplosions') = Len(explosions) + NumReached(updatedMissiles')]_vars

\* a web frame in which a missile reached its target and got its explosion
C1_Witness ==
  /\ impl = "web"
  /\ \E i \in 1..Len(updatedMissiles) :
        /\ ReachedTarget(updatedMissiles[i])
        /\ updatedMissiles[i].pushed = 1
        /\ LogCount("explode", i) = 1
  /\ Len(updatedExplosions) >= 1

\* C2: in the frame in which a missile's progress reaches 1 its explosion
\* is pushed first and the missile is removed afterwards, both within that
\* frame; no missile is removed without its explosion having been pushed
\* before, and no missile that has reached 1 is left when the frame ends.
C2_ExplosionBeforeRemoval ==
  /\ \A i \in 1..Len(updatedMissiles) :
        ReachedTarget(updatedMissiles[i]) =>
          \E j, k \in 1..Len(frameLog) :
            /\ j < k
            /\ frameLog[j] = [op |-> "explode", idx |-> i]
            /\ frameLog[k] = [op |-> "erase", idx |-> i]
  /\ \A k \in 1..Len(frameLog) :
        frameLog[k].op = "erase" =>
          \E j \in 1..(k - 1) :
            frameLog[j] = [op |-> "explode", idx |-> frameLog[k].idx]
  /\ Len(updatedExplosions) >= NumReached(updatedMissiles)
  /\ \A i \in 1..Len(missiles) : ~ReachedTarget(missiles[i])

\* a C++ frame in which a whole burst and the missile launched with it
\* reached their targets together
C2_Witness ==
  /\ impl = "cpp"
  /\ NumReached(updatedMissiles) = BurstMissiles + BurstSubmarines + 1
  /\ Len(frameLog) = 2 * NumReached(updatedMissiles)
  /\ Len(missiles) < Len(updatedMissiles)

\* the age of explosion e when the simulation clock reads now
AgeAt(e, now) == IF impl = "web" THEN now - e.startTime ELSE e.age

\* the explosion's own finished state
ExplosionFinished(e) == IF impl = "web" THEN e.finished ELSE ExplosionIsFinished(e)

\* C5: an explosion's age only grows; it is finished exactly when its age
\* has reached its duration; it is removed at the end of the frame in which
\* it finished, so it is never updated again and the collection never holds
\* a finished explosion between frames.
C5_ExplosionLifecycle ==
  /\ [](\A i \in 1..Len(explosions) :
          /\ 0 <= AgeAt(explosions[i], time)
          /\ AgeAt(explosions[i], time) < ExplosionDuration
          /\ ~ExplosionFinished(explosions[i]))
  /\ [][FrameStep =>
          /\ Len(updatedExplosions') >= Len(explosions)
          /\ \A i \in 1..Len(explosions) :
               AgeAt(updatedExplosions'[i], time') >= AgeAt(explosions[i], time)
          /\ \A i \in 1..Len(updatedExplosions') :
               ExplosionFinished(updatedExplosions'[i])
                 <=> AgeAt(updatedExplosions'[i], time') >= ExplosionDuration
          /\ explosions' = SelectSeq(updatedExplosions',
                             LAMBDA e : AgeAt(e, time') < ExplosionDuration)]_vars

\* a frame brought an explosion to exactly its duration and removed it
C5_Witness ==
  /\ \E i \in 1..Len(updatedExplosions) :
        /\ AgeAt(updatedExplosions[i], time) = ExplosionDuration
        /\ ExplosionFinished(updatedExplosions[i])
  /\ Len(explosions) < Len(updatedExplosions)

\* what makes an aircraft the object it is: the createAircraftFleet call
\* (or startup loop) that built it, and what its constructor was given
AircraftIdentity(a) ==
  IF impl = "web" THEN [fleet |-> a.fleet, speed |-> a.speed]
  ELSE [fleet |-> a.fleet, duration |-> a.duration]

Identities(ac) == [i \in 1..Len(ac) |-> AircraftIdentity(ac[i])]

\* C8 as stated: the aircraft are the ones created at initialization, in
\* every state, whatever frames and control events have happened.
C8_AsStated ==
  /\ Len(aircraft) = AircraftCount
  /\ \A i \in 1..Len(aircraft) : aircraft[i].fleet = 1

\* C8, amended: the number of aircraft never changes; frames, pause and
\* resume, the burst key, the intensity reset of the C++ front-end and
\* display-mode cycling leave every aircraft the same object; the web
\* front-end's reset replaces every aircraft by a newly created one.
C8_AircraftPersistExceptWebReset ==
  /\ [](Len(aircraft) = AircraftCount)
  /\ [][IF ResetStep
        THEN \A i \in 1..Len(aircraft'), j \in 1..Len(aircraft) :
               aircraft'[i].fleet # aircraft[j].fleet
        ELSE Identities(aircraft') = Identities(aircraft)]_vars

\* the web simulation was reset and has run on with the new fleet
C8_Witness ==
  /\ impl = "web"
  /\ time > 0
  /\ \A i \in 1..Len(aircraft) : aircraft[i].fleet = 2

(***************************************************************************)
(* Properties of the draw order (Spec: the frames as the operations they   *)
(* perform, in frameOps)                                                   *)
(***************************************************************************)
\* the draw calls of the frame, with their positions
DrawIndices == {i \in 1..Len(frameOps) : frameOps[i].op = "draw"}

\* the place of a primitive in the documented draw order
DrawRank(what) ==
  CASE what = "map" -> 0
    [] what = "aircraft" -> 1
    [] what = "missile" -> 2
    [] what = "explosion" -> 3

\* the draws into each target come in the documented order
DrawOrderKept ==
  \A i, j \in DrawIndices :
    (i < j /\ frameOps[i].target = frameOps[j].target)
      => DrawRank(frameOps[i].what) <= DrawRank(frameOps[j].what)

\* C13 as stated: in every rendered frame, into every scene target, the
\* map is drawn first, then all aircraft, then all missiles, then all
\* explosions: no aircraft draw follows a missile or explosion draw and no
\* explosion draw precedes a missile draw.
C13_AsStated == DrawOrderKept

\* the part of C13 the C++ front-end keeps: its frames draw in the
\* documented order
C13_CppDrawOrder == impl = "cpp" => DrawOrderKept

\* a web frame has drawn an aircraft after a missile into the same canvas
C13_WebAircraftAfterMissile ==
  /\ impl = "web"
  /\ \E i, j \in DrawIndices :
       /\ i < j
       /\ frameOps[i].target = frameOps[j].target
       /\ frameOps[i].what = "missile"
       /\ frameOps[j].what = "aircraft"

(***************************************************************************)
(* Properties of the delta-time cap (SpecStall)                            *)
(***************************************************************************)
\* what the frame added to the state of each missile, new ones included
MissilesAdvanceBy(cap) ==
  \A i \in 1..Len(updatedMissiles') :
    updatedMissiles'[i].progress
      - (IF i <= Len(missiles) THEN missiles[i].progress ELSE 0) <= cap

\* what the frame added to the age of each explosion, new ones included
ExplosionsAdvanceBy(cap) ==
  IF impl = "web" THEN time' - time <= cap
  ELSE \A i \in 1..Len(updatedExplosions') :
         updatedExplosions'[i].age
           - (IF i <= Len(explosions) THEN explosions[i].age ELSE 0) <= cap

\* how far the frame moved each aircraft along its loop
AircraftAdvanceBy(cap) ==
  \A i \in 1..Len(aircraft) :
    IF impl = "web"
    THEN (aircraft'[i].angle - aircraft[i].angle) % TWO_PI <= aircraft[i].speed * cap
    ELSE (aircraft'[i].progress - aircraft[i].progress) % aircraft[i].duration <= cap

\* what the frame added to the launch / spawn timer
TimerAdvancesBy(cap) ==
  IF impl = "web"
  THEN timeSinceLastSpawn' <= timeSinceLastSpawn + cap
  ELSE timeSinceLastLaunch' <= timeSinceLastLaunch + cap

\* C14: in every frame, whatever wall-clock time has elapsed since the
\* previous one, missiles, explosions, aircraft and the spawn timer advance
\* by a delta time of at most 0.1 s.
C14_DeltaTimeCapped ==
  [][(CppStalledFrame \/ WebStalledFrame) =>
       /\ MissilesAdvanceBy(DT_CAP)
       /\ ExplosionsAdvanceBy(DT_CAP)
       /\ AircraftAdvanceBy(DT_CAP)
       /\ TimerAdvancesBy(DT_CAP)]_vars

\* three frames, each after a stall, have advanced a missile by three caps
C14_Witness ==
  /\ frameOps # <<>>
  /\ \E i \in 1..Len(missiles) : missiles[i].progress = 3 * DT_CAP
  /\ explosions # <<>>

(***************************************************************************)
(* Properties of the update and render phases (SpecStall)                  *)
(***************************************************************************)
\* the operations that put something on a target
RenderOps == {"clear", "draw", "text", "pass", "blit", "present"}

\* every write to the simulation state comes before every render operation
UpdateBeforeRender(ops) ==
  \A i \in {k \in 1..Len(ops) : ops[k].op = "mutate"} :
    \A j \in {k \in 1..Len(ops) : ops[k].op \in RenderOps} : i < j

\* the targets scenes were drawn into
SceneTargets(ops) == {ops[i].target : i \in {k \in 1..Len(ops) : ops[k].op = "clear"}}

\* the number of draw calls of one kind into target
RECURSIVE DrawCountFrom(_, _, _, _)
DrawCountFrom(k, ops, what, target) ==
  IF k > Len(ops) THEN 0
  ELSE (IF ops[k].op = "draw" /\ ops[k].what = what /\ ops[k].target = target
        THEN ops[k].count ELSE 0)
       + DrawCountFrom(k + 1, ops, what, target)

DrawCount(ops, what, target) == DrawCountFrom(1, ops, what, target)

\* the scene drawn into target shows the collections ms, ex and ac
SceneShows(ops, target, ms, ex, ac) ==
  /\ DrawCount(ops, "missile", target) = Len(ms)
  /\ DrawCount(ops, "explosion", target) = Len(ex)
  /\ DrawCount(ops, "aircraft", target) = Len(ac)

PassOps(ops) == SelectSeq(ops, LAMBDA o : o.op = "pass")

BlitOps(ops) == SelectSeq(ops, LAMBDA o : o.op = "blit")

\* the colour texture attached to a framebuffer
TextureOf(fbo) == [fbo EXCEPT !.kind = "texture"]

\* barrel, chromatic, horizontal bloom, vertical bloom, composite, each
\* reading what the pass before it wrote
FullChain(ps) ==
  /\ [i \in 1..Len(ps) |-> ps[i].what]
       = <<"barrel", "chromatic", "bloomH", "bloomV", "composite">>
  /\ \A i \in 2..4 : ps[i].reads = <<TextureOf(ps[i - 1].target)>>
  /\ ps[5].reads[1] = TextureOf(ps[2].target)
  /\ ps[5].reads[2] = TextureOf(ps[4].target)

\* the first operation after the scene reads the texture the scene was
\* drawn into
ReadsScene(ops, op) ==
  \A t \in SceneTargets(ops) : op.reads[1] = TextureOf(t)

C18_ModeSwitchKeepsResources ==
  /\ []((impl = "cpp" /\ running) =>
          /\ gpu.fbos = CppGpu({}).fbos
          /\ gpu.textures = CppGpu({}).textures)
  /\ [][crtMode' # crtMode =>
          /\ gpu'.fbos = gpu.fbos
          /\ gpu'.textures = gpu.textures
          /\ gpu'.programs = gpu.programs]_vars

\* the mode has been cycled from OFF through LIGHT to FULL and a frame
\* rendered with the full chain
C18_Witness ==
  /\ impl = "cpp"
  /\ crtMode = "FULL"
  /\ \E i \in 1..Len(frameOps) : frameOps[i].what = "bloomV"
  /\ Cardinality(gpu.fbos) = Cardinality(CppFboNames)

(***************************************************************************)
(* Properties of the GPU objects' life cycle (SpecGpu)                     *)
(***************************************************************************)
\* a step that created GPU objects
ResizeStep == impl = "web" /\ gpu'.gen # gpu.gen

\* the objects an operation of the frame uses
UsedBy(o) ==
  {o.program, o.target} \cup {o.reads[i] : i \in 1..Len(o.reads)}

\* o uses no web GPU object that has been deleted
UsesLive(o, g) ==
  \A h \in UsedBy(o) :
    \/ h.kind \in {"null", "screen"}
    \/ h \in g.programs \cup g.fbos \cup g.textures

\* C19 as stated: a resize releases every old offscreen target and texture
\* and allocates new ones, the number of live framebuffers and textures is
\* the one after construction whatever resizes have happened, and a frame
\* uses no object that was released.
C19_AsStated ==
  /\ []((impl = "web" /\ gpu.ok) =>
          /\ Cardinality(gpu.fbos) = Cardinality(WebGpu(1).fbos)
          /\ Cardinality(gpu.textures) = Cardinality(WebGpu(1).textures))
  /\ [][ResizeStep =>
          /\ gpu.fbos \cap gpu'.fbos = {}
          /\ gpu.textures \cap gpu'.textures = {}]_vars
  /\ [][(impl = "web" /\ frameOps' # frameOps) =>
          \A i \in 1..Len(frameOps') : UsesLive(frameOps'[i], gpu')]_vars

\* the part of C19 the page's own resize path keeps: ScreenManager.resize
\* deletes every object its renderers hold and creates as many, and frames
\* use live objects only
C19_ScreenManagerResizeReleases ==
  /\ [][ScreenManagerResize =>
          /\ \A k \in GraphicalScreens :
               /\ RendererCurrent(k, gpu).fbos \cap gpu'.fbos = {}
               /\ RendererCurrent(k, gpu).textures \cap gpu'.textures = {}
               /\ RendererCurrent(k, gpu).programs \cap gpu'.programs = {}
          /\ Cardinality(gpu'.fbos) = Cardinality(gpu.fbos)
          /\ Cardinality(gpu'.textures) = Cardinality(gpu.textures)]_vars
  /\ [][(impl = "web" /\ frameOps' # frameOps) =>
          \A i \in 1..Len(frameOps') : UsesLive(frameOps'[i], gpu')]_vars

\* Renderer.resize has left the framebuffers and textures it replaced
\* allocated
C19_RendererResizeLeaks ==
  /\ impl = "web"
  /\ \E k \in GraphicalScreens :
       /\ gpu.current[k].targets > gpu.current[k].programs
       /\ RendererObjects(k, gpu.current[k].programs).fbos \subseteq gpu.fbos
  /\ Cardinality(gpu.fbos) > Cardinality(WebGpu(1).fbos)

\* the shaders and framebuffers of the post-process chain
PostProcessResources ==
  IF impl = "web" THEN (WebShaderNames \ {"basic"}) \cup WebFboNames
  ELSE CppShaderNames \cup CppFboNames

\* the program is running its loop
ProgramRuns == IF impl = "web" THEN gpu.ok ELSE running

\* a pass or blit whose program is 0, or that reads or writes an incomplete
\* framebuffer
UsesFailedResource(o) ==
  /\ o.op \in {"pass", "blit", "clear", "draw"}
  /\ \/ o.op \in {"pass", "blit"} /\ o.program = NullHandle
     \/ o.target \in gpu.incomplete
     \/ \E i \in 1..Len(o.reads) : o.reads[i] \in {TextureOf(f) : f \in gpu.incomplete}

\* C20 as stated: when the set-up of a post-process resource fails, the
\* program keeps running and no frame runs a pass that uses the failed
\* resource, whatever mode is selected; only the failure of the base scene
\* renderer ends the program.
C20_AsStated ==
  (impl \in {"cpp", "web"}) =>
    /\ gpu.failed \subseteq PostProcessResources => ProgramRuns
    /\ \A i \in 1..Len(frameOps) : ~UsesFailedResource(frameOps[i])

\* a C++ frame in FULL mode has run the barrel pass with program 0 after
\* the barrel shader failed to load
C20_PassWithFailedShader ==
  /\ impl = "cpp"
  /\ running
  /\ gpu.failed = {"barrel"}
  /\ crtMode = "FULL"
  /\ \E i \in 1..Len(frameOps) :
       /\ frameOps[i].op = "pass"
       /\ frameOps[i].what = "barrel"
       /\ frameOps[i].program = NullHandle

(***************************************************************************)
(* Properties of the paths (SpecPath)                                      *)
(***************************************************************************)
\* C21: a path is computed once, at creation, with a fixed sample count:
\* calculatePath leaves exactly as many points as it was asked for, 220 for
\* a missile, buildLoop leaves 240, and no update and no draw changes the
\* length or the contents of a path.
C21_PathsFixedAtCreation ==
  /\ [](impl = "path" =>
          /\ Len(uMissile.path) = uMissile.samples
          /\ Len(uAircraft.path) = AircraftSamples)
  /\ [][impl = "path" =>
          /\ uMissile'.path = uMissile.path
          /\ uAircraft'.path = uAircraft.path]_vars

\* a missile built with the default sample count has flown to its target,
\* the aircraft has gone round, and the missile has been drawn
C21_Witness ==
  /\ impl = "path"
  /\ uMissile.samples = MissileSamples
  /\ Len(uMissile.path) = 220
  /\ uMissile.progress = MissileDuration
  /\ uAircraft.progress > 0
  /\ uTime >= 300
  /\ splitPc = "missileDrawn"
  /\ output # <<>>

(***************************************************************************)
(* Properties of the glow primitives (SpecGlow)                            *)
(***************************************************************************)
CppGlowDrawn == impl = "glow" /\ splitPc \in {"lineDrawn", "circleDrawn", "pathDrawn"}

WidthsDecrease(calls) ==
  \A k \in 1..(Len(calls) - 1) : calls[k].width > calls[k + 1].width

WidthsIncrease(calls) ==
  \A k \in 1..(Len(calls) - 1) : calls[k].width < calls[k + 1].width

\* C22: a glow primitive draws its widest and faintest layer first and its
\* narrowest and brightest last: over its calls the line width strictly
\* decreases, and the last call has the smallest width and the full alpha
\* of the colour it was given.
C22_AsStated ==
  CppGlowDrawn /\ points.layers > 0 =>
    /\ Len(output) = points.layers
    /\ WidthsDecrease(output)
    /\ \A k \in 1..Len(output) : output[Len(output)].width <= output[k].width
    /\ output[Len(output)].color.a = points.color.a * AlphaOne

\* a path drawn with five layers: the widths grow from call to call and the
\* last call, the one with the full alpha, is the widest
C22_CppBrightestLayerIsWidest ==
  /\ impl = "glow"
  /\ splitPc = "pathDrawn"
  /\ points.layers = 5
  /\ points.color.a = 1000
  /\ Len(output) = 5
  /\ WidthsIncrease(output)
  /\ output[1].width = 18
  /\ output[5].width = 50
  /\ output[5].color.a = 1000 * AlphaOne
  /\ \A k \in 1..4 : output[k].color.a = 600000

(***************************************************************************)
(* Properties of rendering against the page's clock (SpecClock)            *)
(***************************************************************************)
\* C23: rendering is idempotent: a render call that follows a render call
\* with no update in between issues the same entity draws as the one
\* before it, and changes no entity.
C23_AsStated ==
  [][impl = "web" /\ splitPc \in {"rendered", "renderedAgain"}
       /\ splitPc' = "renderedAgain"
     => /\ output' = output
        /\ UNCHANGED <<missiles, explosions, aircraft>>]_vars

\* a second render of an unchanged collection with an explosion in it, whose
\* draws are not those of the frame's render
C23_SecondRenderDiffers ==
  /\ impl = "web"
  /\ splitPc = "renderedAgain"
  /\ explosions # <<>>
  /\ output # renderGraphicalScreen(missiles, explosions, aircraft, uTime)
  /\ \A k \in 1..Len(missiles) : output[k] = WebMissileRenderDraw(missiles[k])

\* the draw gameLoop's render made of the k-th explosion of the collection
ExplosionDrawOf(k) == output[Len(missiles) + k]

\* C27: the age an explosion of the web is drawn at is the age that decides
\* whether it is finished: every explosion in the collection is rendered
\* with the elapsed time update measured, which is at least 0 and less than
\* the duration, also after a pause, a loading delay or capped frames.
C27_AsStated ==
  impl = "web" /\ splitPc = "rendered" =>
    \A k \in 1..Len(explosions) :
      /\ ExplosionDrawOf(k).what = "explosion"
      /\ ExplosionDrawOf(k).elapsed = time - explosions[k].startTime
      /\ 0 <= ExplosionDrawOf(k).elapsed
      /\ ExplosionDrawOf(k).elapsed < ExplosionDuration

\* an explosion that update keeps, not yet 2.5 s old on the simulation's
\* clock, is rendered past its duration on the page's clock: no ring is drawn
C27_ExplosionDrawnPastItsDuration ==
  /\ impl = "web"
  /\ splitPc = "rendered"
  /\ \E k \in 1..Len(explosions) :
       /\ time - explosions[k].startTime < ExplosionDuration
       /\ ~explosions[k].finished
       /\ ExplosionDrawOf(k).elapsed > ExplosionDuration
       /\ ExplosionDrawOf(k).rings = {}

(***************************************************************************)
(* Properties of the tic-tac-toe game (SpecTicTacToe)                      *)
(***************************************************************************)
Marks == Cardinality({c \in Cells : game.board[c] # ""})

Playing == impl = "tictactoe" /\ ~game.gameOver

GameOver == impl = "tictactoe" /\ game.gameOver

FreshBoard ==
  /\ impl = "tictactoe"
  /\ game.board = NewGame.board
  /\ game.currentPlayer = "X"
  /\ ~game.gameOver

\* C24: the tic-tac-toe game keeps running for ever.  While a game is on, a
\* move is made in the update in which the thinking time reaches 1.5 s, and
\* in no other; a game is over after nine moves at the latest, and every
\* game comes to its end; after every end the board is reset to empty with
\* X to move, and only once more than 3 s have passed since the last move.
C24_GameKeepsRunning ==
  /\ [](Playing => game.thinkingTime < MoveTicks /\ Marks < 9)
  /\ [][Playing =>
          /\ game.thinkingTime + 1 >= MoveTicks => Marks' = Marks + 1
          /\ game.thinkingTime + 1 < MoveTicks => game'.board = game.board]_vars
  /\ [][GameOver /\ ~game'.gameOver =>
          /\ game'.sinceLastMove > ResetTicks
          /\ FreshBoard']_vars
  /\ Playing ~> GameOver
  /\ GameOver ~> FreshBoard
  /\ (impl = "tictactoe" => []<>FreshBoard)

\* a new game under way on a board that was reset after a finished game
C24_Witness ==
  /\ FreshBoard
  /\ game.sinceLastMove > ResetTicks
  /\ game.thinkingTime > 0

C24_DrawReached == GameOver /\ game.winner = "DRAW" /\ Marks = 9

(***************************************************************************)
(* Properties of the removal of finished entities (SpecStall)              *)
(***************************************************************************)
\* the missile's own finished state
MissileFinished(m) ==
  IF impl = "web" THEN m.finished \/ m.progress >= MissileDuration
  ELSE MissileIsFinished(m)

\* ScreenManager.renderTargetList: the lines of the first 15 missiles
renderTargetList(ms) ==
  [i \in 1..Min(15, Len(ms)) |->
     [progress |-> (ms[i].progress * 100) \div MissileDuration,
      status   |-> IF ms[i].progress >= MissileDuration THEN "IMPACT" ELSE "TRACKING"]]

\* the missiles the update loop of the last frame left unfinished
UnfinishedUpdated == SelectSeq(updatedMissiles, LAMBDA m : ~MissileFinished(m))

LiveDeltas == DT_CAP..MaxRawDelta

\* where the followed entity is after a frame whose update loops left upd
\* and updExpl, n explosions having been in the collection before it
Follow(tr, upd, n, updExpl) ==
  LET keptTo(k)      == Cardinality({j \in 1..k : ~ExplosionFinished(updExpl[j])})
      explosionAt(k) == IF ExplosionFinished(updExpl[k])
                        THEN [phase |-> "done", idx |-> 0]
                        ELSE [phase |-> "explosion", idx |-> keptTo(k)]
  IN  CASE tr.phase = "missile" ->
             IF MissileFinished(upd[tr.idx])
             THEN explosionAt(n + Cardinality({j \in 1..tr.idx : MissileFinished(upd[j])}))
             ELSE [tr EXCEPT !.idx = Cardinality({j \in 1..tr.idx : ~MissileFinished(upd[j])})]
        [] tr.phase = "explosion" -> explosionAt(tr.idx)
        [] OTHER -> tr

\* the history after a frame: the followed entity's new place, or, when
\* none is followed, any missile of the collection
FollowOrPick(tr, upd, n, updExpl, ms) ==
  {Follow(tr, upd, n, updExpl)}
  \cup (IF tr.phase \in {"none", "done", "discarded"}
        THEN {[phase |-> "missile", idx |-> i] : i \in 1..Len(ms)}
        ELSE {})

\* the explosions with the clock's origin moved to base
Rebased(ex, base) == MapSeq(ex, LAMBDA e : [e EXCEPT !.startTime = @ - base])

\* new SimulationState(...); initializeSimulation(), without aircraft
InitLiveWeb ==
  /\ impl = "web"
  /\ game = GameIdle
  /\ tracked = NotTracked
  /\ SplitIdle /\ UnitIdle /\ CppIdle
  /\ \E progress \in InitialBatches : missiles = MapSeq(progress, NewWebMissile)
  /\ explosions = <<>>
  /\ aircraft = <<>>
  /\ fleets = 1
  /\ time = 0
  /\ timeSinceLastSpawn = 0
  /\ simRunning = TRUE
  /\ updatedMissiles = <<>>
  /\ updatedExplosions = <<>>
  /\ frameLog = <<>>
  /\ gpu = WebGpu(1)
  /\ frameOps = <<>>

InitLive == InitCpp \/ InitLiveWeb

\* an iteration of the C++ main loop with dt > 0 and no key
LiveCppFrame ==
  \E raw \in LiveDeltas :
    /\ CppFrame(raw, "none")
    /\ tracked' \in FollowOrPick(tracked, updatedMissiles', Len(explosions),
                                 updatedExplosions', missiles')

\* WargamesApp.gameLoop(timestamp) with dt > 0
LiveWebFrame ==
  \E raw \in LiveDeltas :
    /\ impl = "web"
    /\ IF ~simRunning
       THEN /\ UNCHANGED <<simVars, webVars>>
            /\ updatedMissiles' = missiles
            /\ updatedExplosions' = explosions
            /\ frameLog' = <<>>
       ELSE LET r == WebUpdateResult(Min(raw, DT_CAP))
            IN  /\ Len(r.spawned) <= MaxMissiles
                /\ time' = 0
                /\ timeSinceLastSpawn' = r.timeSinceLastSpawn
                /\ aircraft' = r.aircraft
                /\ updatedMissiles' = r.updatedMissiles
                /\ updatedExplosions' = Rebased(r.updatedExplosions, r.time)
                /\ missiles' = r.missiles
                /\ explosions' = Rebased(r.explosions, r.time)
                /\ frameLog' = r.frameLog
                /\ UNCHANGED <<simRunning, fleets>>
    /\ frameOps' = WebFrameOps(missiles', explosions', aircraft', gpu)
    /\ tracked' \in FollowOrPick(tracked, updatedMissiles', Len(explosions),
                                 updatedExplosions', missiles')
    /\ UNCHANGED <<impl, game, splitVars, unitVars, cppVars, gpu>>

\* key "r": SimulationState.reset(), with what Math.random() drew
LiveWebReset ==
  \E progress \in InitialBatches :
    /\ impl = "web"
    /\ missiles' = MapSeq(progress, NewWebMissile)
    /\ explosions' = <<>>
    /\ aircraft' = <<>>
    /\ time' = 0
    /\ timeSinceLastSpawn' = 0
    /\ tracked' = IF tracked.phase \in {"missile", "explosion"}
                  THEN [phase |-> "discarded", idx |-> 0]
                  ELSE tracked
    /\ UNCHANGED <<impl, game, fleets, simRunning, splitVars, unitVars, cppVars,
                   obsVars, gfxVars>>

\* a frame in which the simulation advances
LiveRunningFrame == LiveCppFrame \/ (simRunning /\ LiveWebFrame)

\* key "p" or " " while paused: resume()
LiveResume == ~simRunning /\ WebPauseResume

NextLive ==
  \/ LiveCppFrame
  \/ LiveWebFrame
  \/ LiveWebReset
  \/ WebPauseResume

\* frames in which the simulation advances keep occurring, and a pause ends
SpecLive ==
  InitLive /\ [][NextLive]_vars /\ SF_vars(LiveRunningFrame) /\ WF_vars(LiveResume)

(***************************************************************************)
(* Properties of the life of a missile (SpecLive)                          *)
(***************************************************************************)
TrackedMissile == missiles[tracked.idx]

TrackedExplosion == explosions[tracked.idx]

\* what a frame may do to the followed entity: a missile advances by the
\* frame's dt or by nothing, and so does the age of an explosion; a missile
\* becomes an explosion of age at most dt in the frame that completes its
\* flight, and only an explosion can come to be removed as finished
TrackedStep ==
  /\ tracked.phase = "missile" =>
       tracked'.phase \in {"missile", "explosion", "discarded"}
  /\ tracked.phase = "explosion" =>
       tracked'.phase \in {"explosion", "done", "discarded"}
  /\ tracked.phase = "missile" /\ tracked'.phase = "missile" =>
       TrackedMissile'.progress - TrackedMissile.progress \in {0, DT_CAP}
  /\ tracked.phase = "explosion" /\ tracked'.phase = "explosion" =>
       AgeAt(TrackedExplosion', time') - AgeAt(TrackedExplosion, time) \in {0, DT_CAP}
  /\ tracked.phase = "missile" /\ tracked'.phase = "explosion" =>
       /\ TrackedMissile.progress + DT_CAP >= MissileDuration
       /\ AgeAt(TrackedExplosion', time') <= DT_CAP

\* the followed entity is in its collection, unfinished
TrackedInPlace ==
  /\ tracked.phase = "missile" =>
       /\ tracked.idx \in 1..Len(missiles)
       /\ ~MissileFinished(TrackedMissile)
  /\ tracked.phase = "explosion" =>
       /\ tracked.idx \in 1..Len(explosions)
       /\ ~ExplosionFinished(TrackedExplosion)

\* C26 as stated: provided frames with dt > 0 keep occurring and no pause
\* lasts for ever, every missile of the collection finishes and has its
\* explosion spawned, and that explosion is removed as finished: what is
\* followed as a missile or as its explosion comes to be "done".
C26_AsStated ==
  (tracked.phase \in {"missile", "explosion"}) ~> (tracked.phase = "done")

\* C26, amended: provided frames with dt > 0 keep occurring and no pause
\* lasts for ever, every missile of the collection leaves it, in the frame
\* that completes its flight and spawns its explosion or at a reset of the
\* web simulation, and every explosion leaves its collection, once its
\* duration has passed or at a reset: neither a missile nor an explosion
\* stays in its collection for ever.  A followed missile can only become
\* its explosion, and that only be removed, unless a reset discards them.
C26_EveryMissileLeaves ==
  /\ []TrackedInPlace
  /\ [][TrackedStep]_vars
  /\ (tracked.phase \in {"missile", "explosion"})
       ~> (tracked.phase \in {"done", "discarded"})

\* the explosion of a followed missile has been removed
C26_Witness ==
  /\ tracked.phase = "done"
  /\ \E i \in 1..Len(updatedExplosions) : ExplosionFinished(updatedExplosions[i])
  /\ missiles # <<>>

(***************************************************************************)
(* Properties of the data flow between the passes (SpecGpu)                *)
(***************************************************************************)
\* the textures an operation samples
Sampled(o) == {o.reads[i] : i \in 1..Len(o.reads)}

\* the scanline and vignette textures, filled once at set-up
IsMask(t) == t.kind = "texture" /\ t.name \in {"scanline", "vignette"}

\* an operation before the i-th has rendered into the framebuffer that the
\* texture t is attached to
WrittenBefore(ops, i, t) ==
  \E j \in 1..(i - 1) :
    /\ ops[j].op \in {"clear", "draw", "pass"}
    /\ ops[j].target.kind = "fbo"
    /\ TextureOf(ops[j].target) = t

\* the operations are those of an iteration of the loop, which begins with
\* the update of the simulation
IsFrame(ops) == \E i \in 1..Len(ops) : ops[i].op = "mutate"

VisiblePath == SubSeq(points, 1, NumPoints(points, uMissile.progress))

\* C29: the segments Missile::draw passes to drawPathWithGlow, and those
\* SubmarineMissile::draw passes, are the segments that
\* VectorMap::splitAtAntimeridian returns for the visible points: the same
\* threshold, the same boundaries, single-point segments dropped.
C29_ThreeSplitsAgree ==
  splitPc \in {"cppDrawn", "subDrawn"} =>
    output = splitAtAntimeridian(VisiblePath, <<>>)

\* a submarine missile's trail of four points that crosses twice: the
\* middle two points are drawn, the first and the last dropped
C29_Witness ==
  /\ splitPc = "subDrawn"
  /\ Len(VisiblePath) = 4
  /\ output = <<SubSeq(points, 2, 3)>>

(***************************************************************************)
(* Properties of the pause of the web simulation (Spec)                    *)
(***************************************************************************)
\* the state SimulationState.update works on
SimulationFields == <<time, timeSinceLastSpawn, missiles, explosions, aircraft>>

\* a step of the paused web front-end that is neither a reset nor a resume:
\* a frame
PausedFrame ==
  impl = "web" /\ ~simRunning /\ ~simRunning' /\ fleets' = fleets

\* key "p" or " "
PauseOrResume == impl = "web" /\ simRunning' # simRunning

\* C30: while the web simulation is paused, update(dt) changes nothing,
\* whatever dt: simulation time, the spawn timer, the collections and every
\* entity in them stay as they were, nothing explodes and nothing is
\* erased; pause and resume change the running flag only, so that the first
\* update after the resume works on the state the simulation was paused in.
C30_PausedUpdateChangesNothing ==
  [][/\ PausedFrame =>
          /\ SimulationFields' = SimulationFields
          /\ updatedMissiles' = missiles
          /\ updatedExplosions' = explosions
          /\ frameLog' = <<>>
     /\ PauseOrResume =>
          /\ SimulationFields' = SimulationFields
          /\ fleets' = fleets]_vars

\* a frame has passed in the pause that began right after the frame in
\* which a missile exploded: its explosion is as old as it was then
C30_Witness ==
  /\ impl = "web"
  /\ ~simRunning
  /\ frameLog = <<>>
  /\ missiles # <<>>
  /\ \E i \in 1..Len(explosions) : explosions[i].startTime = time

====
